---------------------------- MODULE Spec2Model ----------------------------
(***************************************************************************)
(* A model of the result-ingestion code of CampbellViewer:                 *)
(*   campbellviewer/interfaces/bladed.py    (BladedLinData)                *)
(*   campbellviewer/interfaces/hawcstab2.py (HAWCStab2Data)                *)
(*   campbellviewer/BladedLin_lib.py        (legacy triple-intersection)   *)
(*   campbellviewer/data_storage/*.py       (dataset template, wrapper)    *)
(*                                                                         *)
(* Conventions.  Python floats are fixed-point integers with resolution    *)
(* 1/FloatScale.  Python strings are sequences of one-character strings.   *)
(* Python lists are sequences; numpy indices are 0-based in the source     *)
(* and 1-based here (index k of the source is k+1 of the model).           *)
(* A call that raises is a result whose exc field names the exception.     *)
(***************************************************************************)
EXTENDS Integers, Sequences, FiniteSets, TLC

VARIABLES
    particip_str,   \* parser: the participation string handed to the parser
    particip_src,   \* parser: the triples and layout the string was built from
    parsed,         \* parser: NotParsed, or the outcome of parsing particip_str
    legacy_ds,      \* legacy linkage: the dataset (self) of BladedLin_lib.BladedLinData
    campbell_data,  \* legacy linkage: bladed_result['Campbell diagram participations']
    link,           \* legacy linkage: position and locals of read_additional_cmb_data
    link_log,       \* legacy linkage: what read_additional_cmb_data has printed
    self_ds,        \* data storage: self.ds of the dataset object (the xarray Dataset)
    call,           \* data storage: the method in progress, its position, what it raised
    result_files,   \* the linearisation the result files come from, and the files read so far
    cmb,            \* Bladed: the locals of BladedLinData.read_cmb_data
    log,            \* data storage: what the readers have printed
    database,       \* the LinearizationDataWrapper: its datasets, the call made on it, what it raised
    naming,         \* assure_unique_name: its arguments and its local unique_name
    reader,         \* HS2BINReader: the buffer, the offset and the attributes of the reader
    tree            \* TreeModel: the items of the tree and their check states

parseVars == <<particip_str, particip_src, parsed>>

linkVars == <<legacy_ds, campbell_data, link, link_log>>

dataVars == <<self_ds, call, result_files, cmb, log>>

utilVars == <<database, naming, reader, tree>>

vars == <<particip_str, particip_src, parsed, legacy_ds, campbell_data, link, link_log,
          self_ds, call, result_files, cmb, log, database, naming, reader, tree>>

(***************************************************************************)
(* Each specification below drives one part of the program; the variables  *)
(* of the other parts stay at these values.                                *)
(***************************************************************************)
\* the value of parsed before the parser has run
NotParsed == [exc |-> "pending", recs |-> <<>>]

ParseIdle ==
    /\ particip_str = <<>>
    /\ particip_src = [triples |-> <<>>, layout |-> <<>>]
    /\ parsed = NotParsed

LinkIdle ==
    /\ legacy_ds = [idle |-> TRUE]
    /\ campbell_data = <<>>
    /\ link = [pc |-> "idle"]
    /\ link_log = <<>>

DataIdle ==
    /\ self_ds = [idle |-> TRUE]
    /\ call = [pc |-> "idle"]
    /\ result_files = [idle |-> TRUE]
    /\ cmb = [idle |-> TRUE]
    /\ log = <<>>

ViewIdle ==
    /\ reader = [pc |-> "idle"]
    /\ tree = [pc |-> "idle"]

UtilIdle ==
    /\ database = [pc |-> "idle"]
    /\ naming = [pc |-> "idle"]
    /\ ViewIdle

(***************************************************************************)
(* Numbers                                                                 *)
(***************************************************************************)
\* resolution of the fixed-point image of a float: 45.3 is 453000
FloatScale == 10000

\* 2 * np.pi in units of 1/FloatScale
TwoPi == 62832

Abs(x) == IF x < 0 THEN -x ELSE x

\* x * 2 * np.pi
MulTwoPi(x) == (x \div FloatScale) * TwoPi + ((x % FloatScale) * TwoPi) \div FloatScale

(***************************************************************************)
(* numpy arrays with three axes: the shape, and the cells by index triple  *)
(***************************************************************************)
Cells3(shape) == (1..shape[1]) \X (1..shape[2]) \X (1..shape[3])

\* np.zeros((o, p, m))
Zeros3(o, p, m) == [shape |-> <<o, p, m>>, a |-> [x \in Cells3(<<o, p, m>>) |-> 0]]

\* arr[i, j, k] = v
Set3(arr, i, j, k, v) == [arr EXCEPT !.a[<<i, j, k>>] = v]

(***************************************************************************)
(* Strings: str.strip(chars), str.split(sep), str.split(), str.join        *)
(***************************************************************************)
Digits == {"0", "1", "2", "3", "4", "5", "6", "7", "8", "9"}

DigitVal(c) ==
    CASE c = "0" -> 0 [] c = "1" -> 1 [] c = "2" -> 2 [] c = "3" -> 3
      [] c = "4" -> 4 [] c = "5" -> 5 [] c = "6" -> 6 [] c = "7" -> 7
      [] c = "8" -> 8 [] c = "9" -> 9

\* the characters str.split() without argument splits on
Whitespace == {" ", "\t"}

\* s[a..b] as a sequence (empty when a > b)
Slice(s, a, b) == IF b < a THEN <<>> ELSE [k \in 1..(b - a + 1) |-> s[a + k - 1]]

\* s[:-1]
DropLast(s) == Slice(s, 1, Len(s) - 1)

\* s[:-2]
DropLast2(s) == Slice(s, 1, Len(s) - 2)

\* s.strip(chars): leading and trailing characters of the set removed
StrStrip(s, chars) ==
    LET keep  == {k \in 1..Len(s) : s[k] \notin chars}
        first == CHOOSE k \in keep : \A j \in keep : k <= j
        last  == CHOOSE k \in keep : \A j \in keep : k >= j
    IN  IF keep = {} THEN <<>> ELSE Slice(s, first, last)

\* s.split(sep) for a one-character sep: every sep cuts, empty pieces kept
RECURSIVE StrSplitOn(_, _)
StrSplitOn(s, sep) ==
    LET hits == {k \in 1..Len(s) : s[k] = sep}
        cut  == CHOOSE k \in hits : \A j \in hits : k <= j
    IN  IF hits = {} THEN <<s>>
        ELSE <<Slice(s, 1, cut - 1)>> \o StrSplitOn(Slice(s, cut + 1, Len(s)), sep)

\* s.split(): runs of whitespace cut, no empty piece
RECURSIVE StrSplitWs(_)
StrSplitWs(s) ==
    LET ink   == {k \in 1..Len(s) : s[k] \notin Whitespace}
        first == CHOOSE k \in ink : \A j \in ink : k <= j
        gaps  == {k \in first..Len(s) : s[k] \in Whitespace}
        stop  == CHOOSE k \in gaps : \A j \in gaps : k <= j
    IN  IF ink = {} THEN <<>>
        ELSE IF gaps = {} THEN <<Slice(s, first, Len(s))>>
        ELSE <<Slice(s, first, stop - 1)>> \o StrSplitWs(Slice(s, stop, Len(s)))

\* sep.join(parts)
RECURSIVE StrJoin(_, _)
StrJoin(parts, sep) ==
    IF parts = <<>> THEN <<>>
    ELSE IF Len(parts) = 1 THEN parts[1]
    ELSE parts[1] \o sep \o StrJoin(Tail(parts), sep)

(***************************************************************************)
(* float(token): an optional sign, digits with at most one point and at    *)
(* least one digit.  Anything else raises ValueError.                      *)
(***************************************************************************)
RECURSIVE DigitsValue(_)
DigitsValue(ds) ==
    IF ds = <<>> THEN 0 ELSE 10 * DigitsValue(DropLast(ds)) + DigitVal(ds[Len(ds)])

\* the fraction .d1d2... in units of 1/FloatScale
RECURSIVE FractionValue(_, _)
FractionValue(ds, unit) ==
    IF ds = <<>> \/ unit = 0 THEN 0
    ELSE DigitVal(ds[1]) * unit + FractionValue(Tail(ds), unit \div 10)

\* a float() that reads a malformed token as 0.0 instead of raising
PyFloat_Lenient(tok) ==
    IF tok # <<>> /\ \A k \in 1..Len(tok) : tok[k] \in Digits \cup {".", "-"}
    THEN [ok |-> TRUE,
          val |-> LET neg  == tok[1] = "-"
                      body == IF neg THEN Tail(tok) ELSE tok
                      pts  == {k \in 1..Len(body) : body[k] = "."}
                      pt   == IF pts = {} THEN Len(body) + 1 ELSE CHOOSE k \in pts : TRUE
                      mag  == DigitsValue(Slice(body, 1, pt - 1)) * FloatScale
                              + FractionValue(Slice(body, pt + 1, Len(body)), FloatScale \div 10)
                  IN  IF neg THEN -mag ELSE mag]
    ELSE [ok |-> TRUE, val |-> 0]

PyFloat(tok) ==
    LET signed == Len(tok) > 0 /\ tok[1] \in {"-", "+"}
        body   == IF signed THEN Tail(tok) ELSE tok
        points == {k \in 1..Len(body) : body[k] = "."}
        pt     == IF points = {} THEN Len(body) + 1 ELSE CHOOSE k \in points : TRUE
        whole  == Slice(body, 1, pt - 1)
        frac   == Slice(body, pt + 1, Len(body))
        wellformed ==
            /\ Cardinality(points) <= 1
            /\ \A k \in 1..Len(body) : body[k] \in Digits \cup {"."}
            /\ Len(whole) + Len(frac) >= 1
        mag    == DigitsValue(whole) * FloatScale + FractionValue(frac, FloatScale \div 10)
    IN  IF ~wellformed THEN [ok |-> FALSE, val |-> 0]
        ELSE [ok |-> TRUE, val |-> IF signed /\ tok[1] = "-" THEN -mag ELSE mag]

(***************************************************************************)
(* The participation-string parser of read_cmb_data / read_additional_     *)
(* cmb_data.  One fragment p_str of particip_str.strip(', ').split(',')    *)
(* gives one record, or raises.                                            *)
(***************************************************************************)
\* uncoupled_mode_name = ' '.join(p_str.split()[:-2])
UncoupledModeName(p_str) == StrJoin(DropLast2(StrSplitWs(p_str)), <<" ">>)

\* the parser without the division of the amplitude by 100
ParseTriple_NoScaling(p_str) ==
    LET toks  == StrSplitWs(p_str)
        n     == Len(toks)
        ampl  == PyFloat(DropLast(toks[n - 1]))
        phase == PyFloat(DropLast(toks[n]))
    IN  IF n < 2 THEN [exc |-> "IndexError"]
        ELSE IF ~ampl.ok \/ ~phase.ok THEN [exc |-> "ValueError"]
        ELSE [exc   |-> "none",
              name  |-> UncoupledModeName(p_str),
              ampl  |-> ampl.val,
              phase |-> phase.val]

\* ampl = float(p_str.split()[-2][:-1]) / 100 ; phase = float(p_str.split()[-1][:-1])
ParseTriple(p_str) ==
    LET toks  == StrSplitWs(p_str)
        n     == Len(toks)
        ampl  == PyFloat(DropLast(toks[n - 1]))
        phase == PyFloat(DropLast(toks[n]))
    IN  IF n < 2 THEN [exc |-> "IndexError"]
        ELSE IF ~ampl.ok \/ ~phase.ok THEN [exc |-> "ValueError"]
        ELSE [exc   |-> "none",
              name  |-> UncoupledModeName(p_str),
              ampl  |-> ampl.val \div 100,
              phase |-> phase.val]

\* for p_str in particip_str.strip(', ').split(',')
Fragments(s) == StrSplitOn(StrStrip(s, {",", " "}), ",")

\* the records of the fragments in order, up to the first fragment that raises
RECURSIVE ParseFragments(_)
ParseFragments(frags) ==
    IF frags = <<>> THEN [exc |-> "none", recs |-> <<>>]
    ELSE LET head == ParseTriple(frags[1])
             rest == ParseFragments(Tail(frags))
         IN  IF head.exc # "none" THEN [exc |-> head.exc, recs |-> <<>>]
             ELSE [exc  |-> rest.exc,
                   recs |-> <<[name |-> head.name, ampl |-> head.ampl,
                               phase |-> head.phase]>> \o rest.recs]

ParseParticipStr(s) == ParseFragments(Fragments(s))


(***************************************************************************)
(* Participation strings for the parser: triples                           *)
(* "<name> <amplitude>% <phase>(deg)" joined by commas.                    *)
(***************************************************************************)
\* most triples in one generated participation string
MaxTriples == 2

wTower == <<"T", "o", "w", "e", "r">>

wFA == <<"F", "A">>

wSS == <<"S", "S">>

wBW == <<"B", "W">>

\* uncoupled-mode names, as the words they are written with
NameWords == {<<wTower, wFA>>, <<wTower, wSS>>, <<wBW>>}

\* (amplitude in percent, phase in degrees) as written, and the numbers written
NumberLits ==
    {[amp   |-> [txt |-> <<"4", "5", ".", "3">>, val |-> 453000],
      phase |-> [txt |-> <<"1", "2", ".", "1">>, val |-> 121000]],
     [amp   |-> [txt |-> <<"3", ".", "0">>, val |-> 30000],
      phase |-> [txt |-> <<"-", "9", "0", ".", "0">>, val |-> -900000]],
     [amp   |-> [txt |-> <<"1", "0", "0">>, val |-> 1000000],
      phase |-> [txt |-> <<"0">>, val |-> 0]]}

TripleSrc == {[words |-> w, amp |-> n.amp, phase |-> n.phase] : w \in NameWords, n \in NumberLits}

\* how a string is laid out: whitespace between the tokens of a triple, the
\* text between two triples, the text after the last one, and what stands
\* between amplitude and phase ("ws": the whitespace gap; "comma": ", ")
Layouts ==
    [gap    : {<<" ">>, <<" ", " ">>},
     sep    : {<<",">>, <<",", " ">>},
     trail  : {<<>>, <<",">>, <<",", " ">>},
     ampsep : {"ws", "comma"}]

RenderTriple(t, lay) ==
    StrJoin(t.words, lay.gap) \o lay.gap \o t.amp.txt \o <<"%">>
        \o (IF lay.ampsep = "ws" THEN lay.gap ELSE <<",", " ">>)
        \o t.phase.txt \o <<"°">>

Render(triples, lay) ==
    StrJoin([k \in 1..Len(triples) |-> RenderTriple(triples[k], lay)], lay.sep) \o lay.trail

TripleSeqs == UNION {[1..n -> TripleSrc] : n \in 1..MaxTriples}

(***************************************************************************)
(* The parser as a state machine: a string is given, then parsed.          *)
(***************************************************************************)
InitParse ==
    /\ \E triples \in TripleSeqs, lay \in Layouts :
          /\ particip_src = [triples |-> triples, layout |-> lay]
          /\ particip_str = Render(triples, lay)
    /\ parsed = NotParsed
    /\ LinkIdle
    /\ DataIdle
    /\ UtilIdle

\* bladed.py:180-183, BladedLin_lib.py:170-173 applied to one string
Parse ==
    /\ parsed = NotParsed
    /\ parsed' = ParseParticipStr(particip_str)
    /\ UNCHANGED <<particip_str, particip_src>>
    /\ UNCHANGED <<linkVars, dataVars, utilVars>>

NextParse == Parse

SpecParse == InitParse /\ [][NextParse]_vars


(***************************************************************************)
(* Claims about the parser (checked under SpecParse)                       *)
(***************************************************************************)
\* what the triples a string was built from say the records are: the name is
\* the words joined by single spaces, the amplitude is the written percentage
\* over 100, the phase is the written number
MatchesTriples(recs, triples) ==
    /\ Len(recs) = Len(triples)
    /\ \A k \in 1..Len(triples) :
          /\ recs[k].name = StrJoin(triples[k].words, <<" ">>)
          /\ recs[k].ampl * 100 = triples[k].amp.val
          /\ recs[k].phase = triples[k].phase.val

\* C5: every string of comma-joined triples "<name> <amplitude>% <phase>deg",
\* with or without trailing commas and with one-word or several-word names,
\* parses without raising to one record per triple: name = the tokens but the
\* last two joined by single spaces, amplitude = the number before "%" over
\* 100, phase = the number before the degree sign.
C5_OneRecordPerTriple ==
    (parsed # NotParsed /\ particip_src.layout.ampsep = "ws") =>
        /\ parsed.exc = "none"
        /\ MatchesTriples(parsed.recs, particip_src.triples)

\* C5 witness: a parsed string of two triples with a two-word name, doubled
\* whitespace and a trailing ", ".
C5_Witness ==
    /\ parsed # NotParsed
    /\ particip_src.layout.ampsep = "ws"
    /\ particip_src.layout.gap = <<" ", " ">>
    /\ particip_src.layout.trail = <<",", " ">>
    /\ Len(particip_src.triples) = 2
    /\ Len(particip_src.triples[1].words) = 2
    /\ Len(parsed.recs) = 2

\* the string of Scenario B: amplitude and phase separated by ", "
ScenarioB == <<"T", "o", "w", "e", "r", " ", "F", "A", " ", "4", "5", ".", "3", "%", ",", " ", "1", "2", ".", "1", "°", ",", "T", "o", "w", "e", "r", " ", "S", "S", " ", "3", ".", "0", "%", ",", " ", "-", "9", "0", ".", "0", "°">>

\* the same two triples with whitespace between amplitude and phase
ScenarioBSpaced == <<"T", "o", "w", "e", "r", " ", "F", "A", " ", "4", "5", ".", "3", "%", " ", "1", "2", ".", "1", "°", ",", "T", "o", "w", "e", "r", " ", "S", "S", " ", "3", ".", "0", "%", " ", "-", "9", "0", ".", "0", "°">>

ScenarioBRecords ==
    <<[name |-> <<"T", "o", "w", "e", "r", " ", "F", "A">>, ampl |-> 4530, phase |-> 121000],
      [name |-> <<"T", "o", "w", "e", "r", " ", "S", "S">>, ampl |-> 300, phase |-> -900000]>>

LinkTol == 10

\* rotspeeds = operating_points[:, "rot. speed [rpm]"] * 2 * np.pi / 60
RotSpeed(ds, i_rs) == MulTwoPi(ds.operating_points[i_rs]) \div 60

\* freq = float(self["frequency"].loc[i_rs, i_mode]) * 2 * np.pi
TrackedFreq(ds, i_rs, i_mode) == MulTwoPi(ds.frequency[i_rs][i_mode])

\* damp = float(self["damping"].loc[i_rs, i_mode]) / 100
TrackedDamp(ds, i_rs, i_mode) == ds.damping[i_rs][i_mode] \div 100

\* np.where(abs(np.array(info['omega']) - rotspeed) < 0.001)[0]
IdxOpPoint(info, rotspeed) ==
    {r \in 1..Len(info) : Abs(info[r].omega - rotspeed) < LinkTol}

\* np.where(abs(np.array(info['freq']) - freq) < 0.001)[0]
IdxFreq(info, freq) == {r \in 1..Len(info) : Abs(info[r].freq - freq) < LinkTol}

\* np.where(abs(np.array(info['damp']) - damp) < 0.001)[0]
IdxDamp(info, damp) == {r \in 1..Len(info) : Abs(info[r].damp - damp) < LinkTol}

\* the linkage that takes the first common row when there are several
UniqueIdx_TakesFirst(ds, info, i_rs, i_mode) ==
    LET all == IdxOpPoint(info, RotSpeed(ds, i_rs))
                  \cap (IdxFreq(info, TrackedFreq(ds, i_rs, i_mode))
                        \cap IdxDamp(info, TrackedDamp(ds, i_rs, i_mode)))
    IN  IF all = {} THEN {} ELSE {CHOOSE r \in all : \A q \in all : r <= q}

\* unique_idx = np.intersect1d(idx_op_point, np.intersect1d(idx_freq, idx_damp))
UniqueIdx(ds, info, i_rs, i_mode) ==
    IdxOpPoint(info, RotSpeed(ds, i_rs))
        \cap (IdxFreq(info, TrackedFreq(ds, i_rs, i_mode))
              \cap IdxDamp(info, TrackedDamp(ds, i_rs, i_mode)))

\* a pad that puts the new slice in front, shifting what was written
Pad_InFront(arr) ==
    LET shape == <<arr.shape[1], arr.shape[2] + 1, arr.shape[3]>>
    IN  [shape |-> shape,
         a     |-> [x \in Cells3(shape) |->
                       IF x[2] = 1 THEN 0 ELSE arr.a[<<x[1], x[2] - 1, x[3]>>]]]

\* np.pad(arr, ((0, 0), (0, 1), (0, 0)), mode='constant', constant_values=0)
Pad(arr) ==
    LET shape == <<arr.shape[1], arr.shape[2] + 1, arr.shape[3]>>
    IN  [shape |-> shape,
         a     |-> [x \in Cells3(shape) |-> IF x[2] <= arr.shape[2] THEN arr.a[x] ELSE 0]]

\* names.index(name): the first position of name
IndexOf(names, name) ==
    CHOOSE k \in 1..Len(names) : names[k] = name /\ \A j \in 1..(k - 1) : names[j] # name

\* a membership test that never finds the name
InList_Never(names, name) == FALSE

\* name in names
InList(names, name) == \E k \in 1..Len(names) : names[k] = name

\* the loops "for i_rs ... for i_mode ...": the pair after (i_rs, i_mode), or the
\* end of both loops
Advance(l, ds) ==
    IF l.i_mode < Len(ds.modes)
    THEN [l EXCEPT !.pc = "pair", !.i_mode = l.i_mode + 1, !.frags = <<>>]
    ELSE IF l.i_rs < Len(ds.operating_points)
    THEN [l EXCEPT !.pc = "pair", !.i_rs = l.i_rs + 1, !.i_mode = 1, !.frags = <<>>]
    ELSE [l EXCEPT !.pc = "finish", !.frags = <<>>]

\* the variable of an xarray dataset that was set to None and never assigned
None == [none |-> TRUE]

(***************************************************************************)
(* The datasets and tables the legacy linkage is run on                    *)
(***************************************************************************)
\* most operating points of a generated legacy dataset
MaxOpsL == 2

\* most coupled modes of a generated legacy dataset
MaxModesL == 2

\* most rows of a generated participation_info table
MaxRows == 2

\* rot. speed [rpm] of operating point op
RpmOf(op) == (6 + op) * FloatScale

\* tracked frequency [Hz] and damping [%] of mode at operating point op
FrequencyOf(op, mode) == mode * (FloatScale \div 2) + op * (FloatScale \div 100)

DampingOf(op, mode) == mode * FloatScale + op * (FloatScale \div 10)

LegacyDataset(n_ops, n_modes) ==
    [operating_points            |-> [op \in 1..n_ops |-> RpmOf(op)],
     frequency                   |-> [op \in 1..n_ops |-> [m \in 1..n_modes |-> FrequencyOf(op, m)]],
     damping                     |-> [op \in 1..n_ops |-> [m \in 1..n_modes |-> DampingOf(op, m)]],
     modes                       |-> [m \in 1..n_modes |-> <<"m", m>>],
     participation_modes         |-> None,
     participation_factors_amp   |-> None,
     participation_factors_phase |-> None]

\* participation strings carried by the rows
LinkStrings ==
    <<<<"A", " ", "1", "0", "%", " ", "0", "°", ",", " ", "B", " ", "2", "0", "%", " ", "9", "0", "°">>,
      <<"B", " ", "3", "0", "%", " ", "-", "9", "0", "°", ",", "C", " ", "5", ".", "5", "%", " ", "4", "5", "°", ",">>,
      <<"A", " ", "1", "%", " ", "1", "°", ",", "A", " ", "2", "%", " ", "2", "°">>,
      <<"A", " ", "1", "0", "%", ",", " ", "0", "°">>>>

\* a row is written for one (operating point, mode) of the dataset: with the
\* tracked values ("exact"), with all three just inside the tolerance
\* ("near"), or with the frequency or the damping exactly 0.001 away
RowVariants == <<"exact", "near", "offFreq", "offDamp">>

RowKinds(n_ops, n_modes) ==
    [op : 1..n_ops, mode : 1..n_modes, variant : 1..Len(RowVariants)]

RowRank(kind, n_modes) ==
    ((kind.op - 1) * n_modes + (kind.mode - 1)) * Len(RowVariants) + kind.variant

RowOf(ds, kind) ==
    LET v     == RowVariants[kind.variant]
        omega == RotSpeed(ds, kind.op)
        freq  == TrackedFreq(ds, kind.op, kind.mode)
        damp  == TrackedDamp(ds, kind.op, kind.mode)
    IN  [omega |-> IF v = "near" THEN omega + (LinkTol - 1) ELSE omega,
         freq  |-> CASE v = "near" -> freq - (LinkTol - 1)
                     [] v = "offFreq" -> freq + LinkTol
                     [] OTHER -> freq,
         damp  |-> CASE v = "near" -> damp + (LinkTol - 1)
                     [] v = "offDamp" -> damp - LinkTol
                     [] OTHER -> damp,
         particip_str |->
             LinkStrings[((kind.op + kind.mode + kind.variant) % Len(LinkStrings)) + 1]]

\* the tables: up to MaxRows rows, in the order of the pairs they are written for
RowTables(n_ops, n_modes) ==
    {t \in UNION {[1..n -> RowKinds(n_ops, n_modes)] : n \in 0..MaxRows} :
        \A k \in 1..(Len(t) - 1) : RowRank(t[k], n_modes) <= RowRank(t[k + 1], n_modes)}

(***************************************************************************)
(* read_additional_cmb_data as a state machine                             *)
(***************************************************************************)
InitLink ==
    /\ ParseIdle
    /\ DataIdle
    /\ UtilIdle
    /\ \E n_ops \in 1..MaxOpsL, n_modes \in 1..MaxModesL :
          /\ legacy_ds = LegacyDataset(n_ops, n_modes)
          /\ \E t \in RowTables(n_ops, n_modes) :
                campbell_data = [k \in 1..Len(t) |-> RowOf(LegacyDataset(n_ops, n_modes), t[k])]
          \* BladedLin_lib.py:142-148
          /\ link = [pc |-> "pair", i_rs |-> 1, i_mode |-> 1, frags |-> <<>>,
                     participation_mode_names    |-> <<>>,
                     participation_factors_amp   |-> Zeros3(n_ops, 0, n_modes),
                     participation_factors_phase |-> Zeros3(n_ops, 0, n_modes)]
    /\ link_log = <<>>

\* BladedLin_lib.py:162-164: no common row
LinkNone ==
    /\ link.pc = "pair"
    /\ UniqueIdx(legacy_ds, campbell_data, link.i_rs, link.i_mode) = {}
    /\ link_log' = Append(link_log, [kind |-> "not linked", i_rs |-> link.i_rs,
                                     i_mode |-> link.i_mode])
    /\ link' = Advance(link, legacy_ds)
    /\ UNCHANGED <<legacy_ds, campbell_data>>
    /\ UNCHANGED <<parseVars, dataVars, utilVars>>

\* BladedLin_lib.py:165-167: more than one common row
LinkAmbiguous ==
    /\ link.pc = "pair"
    /\ Cardinality(UniqueIdx(legacy_ds, campbell_data, link.i_rs, link.i_mode)) > 1
    /\ link_log' = Append(link_log, [kind |-> "not uniquely linked", i_rs |-> link.i_rs,
                                     i_mode |-> link.i_mode])
    /\ link' = Advance(link, legacy_ds)
    /\ UNCHANGED <<legacy_ds, campbell_data>>
    /\ UNCHANGED <<parseVars, dataVars, utilVars>>

\* BladedLin_lib.py:168-170: exactly one common row, its string is split
LinkUnique ==
    /\ link.pc = "pair"
    /\ \E r \in 1..Len(campbell_data) :
          /\ UniqueIdx(legacy_ds, campbell_data, link.i_rs, link.i_mode) = {r}
          /\ link' = [link EXCEPT !.pc = "triple",
                                  !.frags = Fragments(campbell_data[r].particip_str)]
    /\ UNCHANGED <<legacy_ds, campbell_data, link_log>>
    /\ UNCHANGED <<parseVars, dataVars, utilVars>>

\* BladedLin_lib.py:171-173: the fragment does not parse, the call raises
LinkRaises ==
    /\ link.pc = "triple"
    /\ ParseTriple(link.frags[1]).exc # "none"
    /\ link' = [link EXCEPT !.pc = "raised"]
    /\ link_log' = Append(link_log, [kind |-> ParseTriple(link.frags[1]).exc,
                                     i_rs |-> link.i_rs, i_mode |-> link.i_mode])
    /\ UNCHANGED <<legacy_ds, campbell_data>>
    /\ UNCHANGED <<parseVars, dataVars, utilVars>>

\* BladedLin_lib.py:174-181: a name seen for the first time is registered
Register ==
    /\ link.pc = "triple"
    /\ LET rec == ParseTriple(link.frags[1])
       IN  /\ rec.exc = "none"
           /\ ~InList(link.participation_mode_names, rec.name)
           /\ link_log' = Append(link_log, [kind |-> "new name", i_rs |-> link.i_rs,
                                            i_mode |-> link.i_mode, name |-> rec.name])
           /\ link' = [link EXCEPT
                 !.pc = "write",
                 !.participation_mode_names = Append(@, rec.name),
                 !.participation_factors_amp = Pad(@),
                 !.participation_factors_phase = Pad(@)]
    /\ UNCHANGED <<legacy_ds, campbell_data>>
    /\ UNCHANGED <<parseVars, dataVars, utilVars>>

\* BladedLin_lib.py:183-186: amplitude and phase are written at the name's index
WriteValue ==
    /\ link.pc \in {"triple", "write"}
    /\ LET rec  == ParseTriple(link.frags[1])
           idx  == IndexOf(link.participation_mode_names, rec.name)
           done == [link EXCEPT
                      !.participation_factors_amp = Set3(@, link.i_rs, idx, link.i_mode, rec.ampl),
                      !.participation_factors_phase = Set3(@, link.i_rs, idx, link.i_mode, rec.phase),
                      !.frags = Tail(@)]
       IN  /\ rec.exc = "none"
           /\ link.pc = "triple" => InList(link.participation_mode_names, rec.name)
           /\ link' = IF Len(link.frags) > 1
                      THEN [done EXCEPT !.pc = "triple"]
                      ELSE Advance(done, legacy_ds)
    /\ UNCHANGED <<legacy_ds, campbell_data, link_log>>
    /\ UNCHANGED <<parseVars, dataVars, utilVars>>

\* BladedLin_lib.py:188-192: the three variables are stored in the dataset
LinkFinish ==
    /\ link.pc = "finish"
    /\ legacy_ds' = [legacy_ds EXCEPT
          !.participation_modes = link.participation_mode_names,
          !.participation_factors_amp = link.participation_factors_amp,
          !.participation_factors_phase = link.participation_factors_phase]
    /\ link' = [link EXCEPT !.pc = "done"]
    /\ UNCHANGED <<campbell_data, link_log>>
    /\ UNCHANGED <<parseVars, dataVars, utilVars>>

NextLink ==
    \/ LinkNone
    \/ LinkAmbiguous
    \/ LinkUnique
    \/ LinkRaises
    \/ Register
    \/ WriteValue
    \/ LinkFinish

SpecLink == InitLink /\ [][NextLink]_vars


(***************************************************************************)
(* Claims about the triple-intersection linkage (checked under SpecLink)   *)
(***************************************************************************)
\* the pairs whose loop body has completed
Processed(i_rs, i_mode) ==
    \/ link.pc \in {"finish", "done"}
    \/ i_rs < link.i_rs
    \/ i_rs = link.i_rs /\ i_mode < link.i_mode

\* a value lies within 1e-3 of another
Within1em3(a, b) == Abs(a - b) * 1000 < FloatScale

\* rows whose rotor speed, frequency and damping each lie within 1e-3 of the
\* values tracked for (i_rs, i_mode)
CandidateRows(i_rs, i_mode) ==
    {r \in 1..Len(campbell_data) :
        /\ Within1em3(campbell_data[r].omega, RotSpeed(legacy_ds, i_rs))
        /\ Within1em3(campbell_data[r].freq, TrackedFreq(legacy_ds, i_rs, i_mode))
        /\ Within1em3(campbell_data[r].damp, TrackedDamp(legacy_ds, i_rs, i_mode))}

OpsL == 1..Len(legacy_ds.operating_points)

ModesL == 1..Len(legacy_ds.modes)

SlicesL == 1..link.participation_factors_amp.shape[2]

Reported(kinds, i_rs, i_mode) ==
    \E k \in 1..Len(link_log) :
        /\ link_log[k].kind \in kinds
        /\ link_log[k].i_rs = i_rs
        /\ link_log[k].i_mode = i_mode

\* C2: participation data is written for a pair (operating point, mode) only
\* when exactly one row lies within 1e-3 of the tracked rotor speed, frequency
\* and damping.  With no such row or several, a linkage failure is reported,
\* no participation-mode name is registered for the pair and every cell
\* [op, :, mode] of both arrays keeps its zero.
C2_WrittenOnlyOnUniqueMatch ==
    link.pc # "idle" =>
        \A i_rs \in OpsL, i_mode \in ModesL :
            (Processed(i_rs, i_mode) /\ Cardinality(CandidateRows(i_rs, i_mode)) # 1) =>
                /\ Reported({"not linked", "not uniquely linked"}, i_rs, i_mode)
                /\ ~Reported({"new name"}, i_rs, i_mode)
                /\ \A j \in SlicesL :
                      /\ link.participation_factors_amp.a[<<i_rs, j, i_mode>>] = 0
                      /\ link.participation_factors_phase.a[<<i_rs, j, i_mode>>] = 0

\* C2 witness (Scenario E): the call has completed, data was written for some
\* pair, and for another pair the frequency filter and the damping filter
\* each return one row, not the same one.
C2_Witness ==
    /\ link.pc = "done"
    /\ link.participation_factors_amp.shape[2] > 0
    /\ \E i_rs \in OpsL, i_mode \in ModesL, a, b \in 1..Len(campbell_data) :
          /\ a # b
          /\ IdxFreq(campbell_data, TrackedFreq(legacy_ds, i_rs, i_mode)) = {a}
          /\ IdxDamp(campbell_data, TrackedDamp(legacy_ds, i_rs, i_mode)) = {b}
          /\ Reported({"not linked"}, i_rs, i_mode)

\* the records of the row linked to a processed pair (none when not linked)
LinkedRecords(i_rs, i_mode) ==
    IF Cardinality(CandidateRows(i_rs, i_mode)) = 1
    THEN ParseParticipStr(
             campbell_data[CHOOSE r \in CandidateRows(i_rs, i_mode) : TRUE].particip_str).recs
    ELSE <<>>

\* C8: a name that is already registered keeps the index of its first
\* registration and causes no padding: at every point the registry holds each
\* name once, both arrays have as many participation-mode slices as the
\* registry has names, and the value last written for (pair, name) is found at
\* the name's index.
C8_RegisterIsIdempotent ==
    link.pc # "idle" =>
        LET names == link.participation_mode_names
        IN  /\ \A j, k \in 1..Len(names) : names[j] = names[k] => j = k
            /\ link.participation_factors_amp.shape[2] = Len(names)
            /\ link.participation_factors_phase.shape[2] = Len(names)
            /\ \A i_rs \in OpsL, i_mode \in ModesL :
                  Processed(i_rs, i_mode) =>
                      LET recs == LinkedRecords(i_rs, i_mode)
                      IN  \A k \in 1..Len(recs) :
                              (\A q \in (k + 1)..Len(recs) : recs[q].name # recs[k].name) =>
                                  /\ \E j \in 1..Len(names) : names[j] = recs[k].name
                                  /\ link.participation_factors_amp.a[
                                         <<i_rs, IndexOf(names, recs[k].name), i_mode>>] = recs[k].ampl
                                  /\ link.participation_factors_phase.a[
                                         <<i_rs, IndexOf(names, recs[k].name), i_mode>>] = recs[k].phase

\* C8 witness: the call has completed and more records were written than
\* names were registered (some name was met again).
C8_Witness ==
    /\ link.pc = "done"
    /\ Len(link.participation_mode_names) >= 2
    /\ \E i_rs \in OpsL, i_mode \in ModesL, k \in 1..Len(link_log) :
          /\ Len(LinkedRecords(i_rs, i_mode)) > 0
          /\ link_log[k].kind = "new name"
          /\ link_log[k].name = LinkedRecords(i_rs, i_mode)[1].name
          /\ <<link_log[k].i_rs, link_log[k].i_mode>> # <<i_rs, i_mode>>

\* arr2 is arr with one all-zero participation-mode slice appended
GrownByZeroSlice(arr, arr2) ==
    /\ arr2.shape = <<arr.shape[1], arr.shape[2] + 1, arr.shape[3]>>
    /\ \A x \in Cells3(arr.shape) : arr2.a[x] = arr.a[x]
    /\ \A i \in 1..arr.shape[1], k \in 1..arr.shape[3] : arr2.a[<<i, arr.shape[2] + 1, k>>] = 0

\* C9: registering a new name grows the participation-mode axis of the
\* amplitude and of the phase array by exactly one all-zero slice at the end,
\* leaves the other two axes as they are and leaves every value written
\* before at its index.
C9_PadKeepsWrittenValues ==
    [][(link.pc = "triple" /\ link'.pc = "write") =>
          /\ link'.participation_mode_names =
                 Append(link.participation_mode_names, ParseTriple(link.frags[1]).name)
          /\ GrownByZeroSlice(link.participation_factors_amp, link'.participation_factors_amp)
          /\ GrownByZeroSlice(link.participation_factors_phase, link'.participation_factors_phase)
      ]_vars

\* C9 witness: a name has just been registered while an earlier slice already
\* holds a written (non-zero) amplitude.
C9_Witness ==
    /\ link.pc = "write"
    /\ Len(link.participation_mode_names) >= 2
    /\ \E x \in Cells3(link.participation_factors_amp.shape) :
          link.participation_factors_amp.a[x] # 0

(***************************************************************************)
(* The dataset of AbstractLinearizationData: an xarray Dataset.  A         *)
(* variable is None or an array: its shape and its cells by index tuple.   *)
(***************************************************************************)
Cells(shape) ==
    IF Len(shape) = 1 THEN {<<i>> : i \in 1..shape[1]}
    ELSE IF Len(shape) = 2 THEN (1..shape[1]) \X (1..shape[2])
    ELSE Cells3(shape)

\* a list held as an array with one axis
ListArray(list) == [shape |-> <<Len(list)>>, a |-> [x \in Cells(<<Len(list)>>) |-> list[x[1]]]]

\* the ascending sequence of the members of a set of integers
RECURSIVE SortedSeq(_)
SortedSeq(S) ==
    IF S = {} THEN <<>>
    ELSE LET m == CHOOSE x \in S : \A y \in S : x <= y
         IN  <<m>> \o SortedSeq(S \ {m})

\* AEMode(name=name): the other three attributes default to ''
AEMode(name) == [name |-> name, symmetry_type |-> "", whirl_type |-> "", wt_component |-> ""]

\* the data variables the template declares, and the coordinate the readers add
VariableNames ==
    {"frequency", "damping", "realpart", "participation_factors_amp",
     "participation_factors_phase", "operating_points", "modes",
     "participation_modes", "operating_parameter"}

\* the dimension names each variable is assigned with
DimsOf(name) ==
    CASE name \in {"frequency", "damping", "realpart"} -> <<"operating_point_ID", "mode_ID">>
      [] name \in {"participation_factors_amp", "participation_factors_phase"} ->
             <<"operating_point_ID", "participation_mode_ID", "mode_ID">>
      [] name = "operating_points" -> <<"operating_point_ID", "operating_parameter">>
      [] name = "modes" -> <<"mode_ID">>
      [] name = "participation_modes" -> <<"participation_mode_ID">>
      [] name = "operating_parameter" -> <<"operating_parameter">>

\* AbstractLinearizationData.__init__: every variable is None
EmptyDataset(attrs) ==
    [n \in VariableNames \cup {"attrs"} |-> IF n = "attrs" THEN attrs ELSE None]

IsSet(ds, name) == ds[name] # None

\* the sizes the variables other than `except` give to a dimension
DimSizes(ds, dim, except) ==
    {ds[p[1]].shape[p[2]] :
        p \in {q \in VariableNames \X (1..3) :
                  /\ q[1] # except
                  /\ IsSet(ds, q[1])
                  /\ q[2] <= Len(DimsOf(q[1]))
                  /\ DimsOf(q[1])[q[2]] = dim}}

\* an assignment that stores whatever it is given
Assign_Unchecked(ds, name, arr) == [exc |-> "none", ds |-> [ds EXCEPT ![name] = arr]]

\* self.ds[name] = (dims, arr): xarray refuses data whose number of axes
\* differs from the number of dimension names, and a size that conflicts
\* with the size another variable gives to the same dimension
Assign(ds, name, arr) ==
    IF Len(arr.shape) # Len(DimsOf(name))
    THEN [exc |-> "ValueError", ds |-> ds]
    ELSE IF \E k \in 1..Len(arr.shape) :
                DimSizes(ds, DimsOf(name)[k], name) \ {arr.shape[k]} # {}
    THEN [exc |-> "ValueError", ds |-> ds]
    ELSE [exc |-> "none", ds |-> [ds EXCEPT ![name] = arr]]

\* a run of assignments: the first that raises ends the run
RECURSIVE AssignSeq(_, _)
AssignSeq(ds, todo) ==
    IF todo = <<>> THEN [exc |-> "none", ds |-> ds]
    ELSE LET r == Assign(ds, todo[1].name, todo[1].arr)
         IN  IF r.exc # "none" THEN r ELSE AssignSeq(r.ds, Tail(todo))

\* arr without as many positions as `ids` has, taken from the front of axis k
DropAxis_FromFront(arr, k, ids) ==
    LET m     == Cardinality(ids)
        shape == [arr.shape EXCEPT ![k] = arr.shape[k] - m]
    IN  [shape |-> shape,
         a |-> [x \in Cells(shape) |-> arr.a[[x EXCEPT ![k] = x[k] + m]]]]

\* arr without the positions `ids` of axis k
DropAxis(arr, k, ids) ==
    LET kept  == SortedSeq((1..arr.shape[k]) \ ids)
        shape == [arr.shape EXCEPT ![k] = Len(kept)]
    IN  [shape |-> shape,
         a |-> [x \in Cells(shape) |-> arr.a[[x EXCEPT ![k] = kept[x[k]]]]]]

\* the first axis of every variable that carries mode_ID
ModeAxis_First(name) ==
    IF \E k \in 1..Len(DimsOf(name)) : DimsOf(name)[k] = "mode_ID" THEN 1 ELSE 0

\* the axis of a variable that carries mode_ID, 0 if none
ModeAxis(name) ==
    IF \E k \in 1..Len(DimsOf(name)) : DimsOf(name)[k] = "mode_ID"
    THEN CHOOSE k \in 1..Len(DimsOf(name)) : DimsOf(name)[k] = "mode_ID"
    ELSE 0

\* self.ds.drop_sel(mode_ID=mode_ids): mode_ID has no coordinate, so the
\* labels are the positions; a dataset without the dimension raises
\* ValueError, a label that is not a position raises KeyError
DropSel(ds, mode_ids) ==
    LET sizes == DimSizes(ds, "mode_ID", "")
    IN  IF sizes = {} THEN [exc |-> "ValueError", ds |-> ds]
        ELSE IF \E id \in mode_ids : \A n \in sizes : id \notin 1..n
        THEN [exc |-> "KeyError", ds |-> ds]
        ELSE [exc |-> "none",
              ds |-> [n \in DOMAIN ds |->
                        IF n \in VariableNames /\ IsSet(ds, n) /\ ModeAxis(n) # 0
                        THEN DropAxis(ds[n], ModeAxis(n), mode_ids)
                        ELSE ds[n]]]

\* AbstractLinearizationData.remove_modes
remove_modes(ds, mode_ids) == DropSel(ds, mode_ids)

(***************************************************************************)
(* HAWCStab2 result files and HAWCStab2Data                                *)
(***************************************************************************)
\* most rows (operating points) of a result file
MaxOps == 2

\* most modes of a HAWCStab2 result file
MaxModesHS2 == 2

sensor_list ==
    <<"TWR SS", "TWR FA", "TWR yaw", "SFT x", "SFT y", "SFT tor",
      "Sym edge", "BW edge", "FW edge", "Sym flap", "BW flap", "FW flap",
      "Sym tors", "BW tors", "FW tors">>

\* a file that does not exist: np.loadtxt raises OSError
MissingFile == [missing |-> TRUE]

\* the number in row r, column c of a result file.  A "ramp" file grows
\* along its columns; in a "tower" file the TWR SS amplitude is the
\* largest of every mode.
FileValue(file, r, c) ==
    IF file.pattern = "tower" /\ (c - 1) % (2 * Len(sensor_list)) = 1
    THEN 100 * FloatScale + r
    ELSE 100 * c + r

\* np.loadtxt(file): an array with two axes, squeezed to one axis when
\* the file has a single row
LoadTxt(file) ==
    IF file.rows = 1
    THEN [shape |-> <<file.cols>>,
          a |-> [x \in Cells(<<file.cols>>) |-> FileValue(file, 1, x[1])]]
    ELSE [shape |-> <<file.rows, file.cols>>,
          a |-> [x \in Cells(<<file.rows, file.cols>>) |-> FileValue(file, x[1], x[2])]]

\* arr[:, a:b] for 0 <= a
ColSlice(arr, a, b) ==
    LET stop  == IF b > arr.shape[2] THEN arr.shape[2] ELSE b
        width == IF stop > a THEN stop - a ELSE 0
    IN  [shape |-> <<arr.shape[1], width>>,
         a |-> [x \in Cells(<<arr.shape[1], width>>) |-> arr.a[<<x[1], a + x[2]>>]]]

\* HAWCStab2Data.read_cmb_data
HS2_read_cmb_data(ds, file) ==
    IF file.missing
    THEN [exc |-> "none", ds |-> ds, printed |-> <<"ERROR: HAWCStab2 cmb file not found! Abort!">>]
    ELSE
    LET hs2cmd == LoadTxt(file)
    IN  IF Len(hs2cmd.shape) < 2
        THEN [exc |-> "IndexError", ds |-> ds, printed |-> <<>>]
        ELSE
        LET cols      == hs2cmd.shape[2]
            \* np.mod((cols-1)/2, 3) == 0: the half is a float, and a float
            \* is a multiple of 3 exactly when cols-1 is a multiple of 6
            aero      == (cols - 1) % (2 * 3) = 0
            num_modes == IF aero THEN (cols - 1) \div 3 ELSE (cols - 1) \div 2
            frequency == ColSlice(hs2cmd, 1, num_modes + 1)
            damping   == ColSlice(hs2cmd, num_modes + 1, 2 * num_modes + 1)
            realpart  == ColSlice(hs2cmd, 2 * num_modes + 1, cols)
            r == AssignSeq(ds, <<[name |-> "frequency", arr |-> frequency],
                                 [name |-> "damping", arr |-> damping]>>
                               \o (IF aero THEN <<[name |-> "realpart", arr |-> realpart]>>
                                   ELSE <<>>))
        IN  [exc |-> r.exc, ds |-> r.ds,
             printed |-> IF r.exc = "none"
                         THEN <<"INFO: HS2 campbell data loaded successfully">> ELSE <<>>]

RECURSIVE SumRows(_, _, _, _)
\* the sum over the first n operating points of arr[:, j, i]
SumRows(arr, n, j, i) ==
    IF n = 0 THEN 0 ELSE arr.a[<<n, j, i>>] + SumRows(arr, n - 1, j, i)

\* np.argmax(np.mean(amp_data[:, :, i_mode], axis=0)): the first sensor of
\* the largest mean
ArgMaxMean(arr, i) ==
    LET total == [j \in 1..arr.shape[2] |-> SumRows(arr, arr.shape[1], j, i)]
    IN  CHOOSE j \in 1..arr.shape[2] :
            /\ \A k \in 1..arr.shape[2] : total[k] <= total[j]
            /\ \A k \in 1..(j - 1) : total[k] < total[j]

\* arr[:, (3 - start)::step]: the columns of the other of the two starts 1, 2
Stride_OtherStart(arr, start, step) ==
    LET from  == 3 - start
        width == IF arr.shape[2] > from THEN (arr.shape[2] - from + step - 1) \div step ELSE 0
    IN  [shape |-> <<arr.shape[1], width>>,
         a |-> [x \in Cells(<<arr.shape[1], width>>) |->
                  arr.a[<<x[1], from + (x[2] - 1) * step + 1>>]]]

\* arr[:, start::step] for 0 <= start
Stride(arr, start, step) ==
    LET width == IF arr.shape[2] > start THEN (arr.shape[2] - start + step - 1) \div step ELSE 0
    IN  [shape |-> <<arr.shape[1], width>>,
         a |-> [x \in Cells(<<arr.shape[1], width>>) |->
                  arr.a[<<x[1], start + (x[2] - 1) * step + 1>>]]]

RECURSIVE AmpSlices(_, _, _, _, _, _)
\* the passes of "for i_mode in range(0, num_modes)" from i_mode on:
\* hs2part[:,i_start:i_end][:,1::2] and hs2part[:,i_start:i_end][:,2::2],
\* then i_start = i_end-1 and i_end = i_end + 2*num_sensors
AmpSlices(hs2part, num_sensors, num_modes, i_mode, i_start, i_end) ==
    IF i_mode >= num_modes THEN <<>>
    ELSE <<[amp   |-> Stride(ColSlice(hs2part, i_start, i_end), 1, 2),
            phase |-> Stride(ColSlice(hs2part, i_start, i_end), 2, 2)]>>
         \o AmpSlices(hs2part, num_sensors, num_modes, i_mode + 1,
                      i_end - 1, i_end + 2 * num_sensors)

\* HAWCStab2Data.read_amp_data
HS2_read_amp_data(ds, file) ==
    LET num_sensors == Len(sensor_list)
        r0 == Assign(ds, "participation_modes",
                     ListArray([j \in 1..num_sensors |-> AEMode(sensor_list[j])]))
    IN  IF r0.exc # "none" THEN [exc |-> r0.exc, ds |-> r0.ds, printed |-> <<>>]
        ELSE IF file.missing
        THEN [exc |-> "none", ds |-> r0.ds,
              printed |-> <<"ERROR: HAWCStab2 cmb file not found! Abort!">>]
        ELSE
        LET hs2part == LoadTxt(file)
        IN  IF Len(hs2part.shape) < 2
            THEN [exc |-> "IndexError", ds |-> r0.ds, printed |-> <<>>]
            ELSE
            LET num_windspeeds == hs2part.shape[1]
                num_modes  == ((hs2part.shape[2] - 1) \div num_sensors) \div 2
                shape      == <<num_windspeeds, num_sensors, num_modes>>
                \* i_start = 0, i_end = 2*num_sensors+1, and the loop
                slices     == AmpSlices(hs2part, num_sensors, num_modes, 0, 0, 2 * num_sensors + 1)
                \* amp_data[:, :, i_mode] = ... needs slices of num_sensors columns
                fits       == \A i \in 1..num_modes :
                                 /\ slices[i].amp.shape = <<num_windspeeds, num_sensors>>
                                 /\ slices[i].phase.shape = <<num_windspeeds, num_sensors>>
                amp_data   == [shape |-> shape,
                               a |-> [x \in Cells3(shape) |-> slices[x[3]].amp.a[<<x[1], x[2]>>]]]
                phase_data == [shape |-> shape,
                               a |-> [x \in Cells3(shape) |-> slices[x[3]].phase.a[<<x[1], x[2]>>]]]
                r1 == AssignSeq(r0.ds, <<[name |-> "participation_factors_amp", arr |-> amp_data],
                                         [name |-> "participation_factors_phase", arr |-> phase_data]>>)
                dominant   == [i \in 1..num_modes |-> sensor_list[ArgMaxMean(amp_data, i)]]
                \* if mode_names[2] == sensor_list[0]: mode_names[1] = sensor_list[1]
                mode_names == IF dominant[3] = sensor_list[1]
                              THEN [dominant EXCEPT ![2] = sensor_list[2]]
                              ELSE dominant
            IN  IF ~fits THEN [exc |-> "ValueError", ds |-> r0.ds, printed |-> <<>>]
                ELSE IF r1.exc # "none" THEN [exc |-> r1.exc, ds |-> r1.ds, printed |-> <<>>]
                ELSE IF num_modes < 3 THEN [exc |-> "IndexError", ds |-> r1.ds, printed |-> <<>>]
                ELSE
                LET r2 == Assign(r1.ds, "modes",
                                 ListArray([i \in 1..num_modes |-> AEMode(mode_names[i])]))
                IN  [exc |-> r2.exc, ds |-> r2.ds,
                     printed |-> IF r2.exc = "none"
                                 THEN <<"INFO: HS2 amplitude data loaded successfully">>
                                 ELSE <<>>]

\* HAWCStab2Data.read_opt_data
HS2_read_opt_data(ds, file) ==
    IF file.missing
    THEN [exc |-> "none", ds |-> ds, printed |-> <<"ERROR: HAWCStab2 opt file not found! Abort!">>]
    ELSE
    LET hs2optdata == LoadTxt(file)
        r == AssignSeq(ds, <<[name |-> "operating_parameter",
                              arr |-> ListArray(<<"wind speed [m/s]", "pitch [deg]",
                                                  "rot. speed [rpm]", "aero power [kw]",
                                                  "aero thrust [kn]">>)],
                             [name |-> "operating_points", arr |-> hs2optdata]>>)
    IN  [exc |-> r.exc, ds |-> r.ds, printed |-> <<>>]

\* the run a set of HAWCStab2 result files was written from
HS2Scenarios == {[n_ops |-> o, n_modes |-> m] : o \in 1..MaxOps, m \in 1..MaxModesHS2}

\* the *.cmb files a reader may be given: missing, structural (two columns
\* a mode) or aeroelastic (three), of the run or with a mode or a row more
\* (blocks and modes are what the analysis wrote: the reader sees rows and
\* columns only)
HS2CmbFiles(scn) ==
    {MissingFile} \cup
    {[missing |-> FALSE, rows |-> scn.n_ops, cols |-> 1 + k * n, pattern |-> "ramp",
      blocks |-> k, modes |-> n] :
        k \in {2, 3}, n \in {scn.n_modes, scn.n_modes + 1}} \cup
    {[missing |-> FALSE, rows |-> scn.n_ops + 1, cols |-> 1 + 2 * scn.n_modes,
      pattern |-> "ramp", blocks |-> 2, modes |-> scn.n_modes]}

\* the *.amp files: thirty columns a mode, or two columns more
HS2AmpFiles(scn) ==
    {MissingFile} \cup
    {[missing |-> FALSE, rows |-> scn.n_ops, cols |-> 1 + 2 * Len(sensor_list) * n,
      pattern |-> p] : n \in {scn.n_modes, scn.n_modes + 1}, p \in {"ramp", "tower"}} \cup
    {[missing |-> FALSE, rows |-> scn.n_ops, cols |-> 3 + 2 * Len(sensor_list) * scn.n_modes,
      pattern |-> "ramp"]}

\* the *.opt files: five columns, or one short
HS2OptFiles(scn) ==
    {MissingFile} \cup
    {[missing |-> FALSE, rows |-> scn.n_ops, cols |-> c, pattern |-> "ramp"] : c \in {4, 5}} \cup
    {[missing |-> FALSE, rows |-> scn.n_ops + 1, cols |-> 5, pattern |-> "ramp"]}

(***************************************************************************)
(* Bladed result files as pyBladed hands them over                         *)
(***************************************************************************)
\* most coupled modes of a Bladed result
MaxModes == 2

\* np.pi in units of 1/FloatScale
Pi == 31416

\* the rotor harmonics read_data removes for version 4.7
RotorHarmonics4p7 == 8

\* the rotor harmonics read_coupled_modes_pre4p7 cuts away
RotorHarmonicsPre4p7 == 9

\* the frequency value Bladed writes where a mode track has no result
NoResult == -1 * FloatScale

\* ApplicationVersion of the .$PJ file
VersionStrings ==
    {<<"4", ".", "6", ".", "2">>, <<"4", ".", "7", ".", "0">>, <<"4", ".", "8", ".", "0">>,
     <<"4", ".", "9", ".", "1">>, <<"4", ".", "1", "0", ".", "0">>,
     <<"3", ".", "9", ".", "0">>, <<"5", ".", "0", ".", "0">>,
     <<"4", ".", "x", ".", "0">>, <<"4">>}

\* extract_bladed_version: the version string, or None when the .$PJ file
\* has no ApplicationVersion line
Versions == {[str |-> s] : s \in VersionStrings} \cup {None}

\* the linearisation a set of result files was written from: its operating
\* points, its coupled modes, and the cells of the mode tracks without result
FirstCell(o, m) == {{}, {<<1, 1>>}}

OneTrack(o, m) == UNION {{S \X {j} : S \in SUBSET (1..o)} : j \in 1..m}

Scenarios(tracks) ==
    UNION {{[n_ops |-> o, n_modes |-> m, missing |-> c] :
                c \in IF tracks = "one" THEN OneTrack(o, m) ELSE FirstCell(o, m)} :
              o \in 1..MaxOps, m \in 1..MaxModes}

\* x * 60 / (2 * np.pi)
RadPerSecToRpm(x) ==
    LET y == x * 60
    IN  (y \div TwoPi) * FloatScale + ((y % TwoPi) * FloatScale) \div TwoPi

\* the values of the operating points: wind speed [m/s], pitch [rad],
\* rotor speed [rad/s], electrical power [W]
WindSpeedOf(op) == (3 + op) * FloatScale

PitchOf(op) == op * (FloatScale \div 100)

OmegaOf(op) == (5 + op) * (FloatScale \div 10)

PowerOf(op) == op * 1000 * FloatScale

\* bladed_result['Frequency (undamped)'][0] and bladed_result['Damping'][0]:
\* three axes, the last of size 1
FrequencyResult(scn, extra) ==
    LET shape == <<scn.n_ops, scn.n_modes + extra, 1>>
    IN  [shape |-> shape,
         a |-> [x \in Cells3(shape) |->
                  IF <<x[1], x[2]>> \in scn.missing THEN NoResult ELSE FrequencyOf(x[1], x[2])]]

DampingResult(scn, extra) ==
    LET shape == <<scn.n_ops, scn.n_modes + extra, 1>>
    IN  [shape |-> shape, a |-> [x \in Cells3(shape) |-> DampingOf(x[1], x[2]) \div 100]]

\* np.loadtxt('.$02').reshape(shape) of a result older than 4.7: frequency
\* in plane 0 and damping in plane 1 of the last axis
AsciiResult(scn, extra) ==
    LET shape == <<scn.n_ops, scn.n_modes + extra, 2>>
    IN  [shape |-> shape,
         a |-> [x \in Cells3(shape) |->
                  IF x[3] = 2 THEN DampingOf(x[1], x[2]) \div 100
                  ELSE IF <<x[1], x[2]>> \in scn.missing THEN NoResult
                  ELSE FrequencyOf(x[1], x[2])]]

\* AXITICK: the names of the coupled modes
ModeNames(n) == [m \in 1..n |-> <<"m", m>>]

\* the .$02/.%02 pair: `extra` columns beyond the coupled modes of the
\* linearisation, and `names` mode names beyond their number
CoupledVariants ==
    {[extra |-> 0, names |-> 0], [extra |-> 0, names |-> -1], [extra |-> 0, names |-> 1],
     [extra |-> RotorHarmonics4p7, names |-> RotorHarmonics4p7],
     [extra |-> RotorHarmonicsPre4p7, names |-> RotorHarmonicsPre4p7],
     [extra |-> RotorHarmonicsPre4p7, names |-> 0]}

CoupledResult(scn, v) ==
    [frequency |-> FrequencyResult(scn, v.extra),
     damping   |-> DampingResult(scn, v.extra),
     ascii     |-> AsciiResult(scn, v.extra),
     AXITICK   |-> ModeNames(scn.n_modes + v.names)]

\* the header .%02: absent, or with an axis label and its values
SideResults(scn) ==
    {[present |-> FALSE]} \cup
    {[present |-> TRUE, AXISLAB |-> lab, AXIVAL |-> [k \in 1..n |-> WindSpeedOf(k)]] :
        lab \in {"Wind Speed", "Rotor Speed"}, n \in {scn.n_ops, scn.n_ops + 1}} \cup
    {[present |-> TRUE, AXISLAB |-> "Azimuth",
      AXIVAL |-> [k \in 1..scn.n_ops |-> WindSpeedOf(k)]]}

\* the operating data of a result of the default format, of n operating
\* points: as many as the linearisation has, or one more
OpResult(n) ==
    [windspeed |-> [k \in 1..n |-> WindSpeedOf(k)],
     pitch     |-> [k \in 1..n |-> PitchOf(k)],
     omega     |-> [k \in 1..n |-> OmegaOf(k)],
     power     |-> [k \in 1..n |-> PowerOf(k)]]

OpResults(scn) == {OpResult(n) : n \in {scn.n_ops, scn.n_ops + 1}}

(***************************************************************************)
(* BladedLinData: the readers of one result                                *)
(***************************************************************************)
\* arr[:, :, k] of an array with three axes (k counted from 0)
Plane(arr, k) ==
    [shape |-> <<arr.shape[1], arr.shape[2]>>,
     a |-> [x \in Cells(<<arr.shape[1], arr.shape[2]>>) |-> arr.a[<<x[1], x[2], k + 1>>]]]

\* a slice that drops no column
DropLastCols_None(arr, n) == arr

\* arr[:, :-n] of an array with two axes
DropLastCols(arr, n) == ColSlice(arr, 0, arr.shape[2] - n)

\* 100 * arr
Times100(arr) == [arr EXCEPT !.a = [x \in DOMAIN arr.a |-> 100 * arr.a[x]]]

\* np.array([v1.T, v2.T, ...]).T of vectors of one length: a row an
\* operating point, a column a vector
Columns(vectors) ==
    LET shape == <<Len(vectors[1]), Len(vectors)>>
    IN  [shape |-> shape, a |-> [x \in Cells(shape) |-> vectors[x[2]][x[1]]]]

\* BladedLinData.read_op_data
read_op_data(ds, op) ==
    LET pitch == [k \in DOMAIN op.pitch |-> (op.pitch[k] * 180 * (FloatScale \div 100)) \div (Pi \div 100)]
        rpm   == [k \in DOMAIN op.omega |-> RadPerSecToRpm(op.omega[k])]
        power == [k \in DOMAIN op.power |-> op.power[k] \div 1000]
        op_point_arr == Columns(<<op.windspeed, pitch, rpm, power>>)
    IN  AssignSeq(ds, <<[name |-> "operating_parameter",
                         arr |-> ListArray(<<"wind speed [m/s]", "pitch [deg]", "rot. speed [rpm]",
                                             "Electrical power [kw]">>)],
                        [name |-> "operating_points", arr |-> op_point_arr]>>)

\* mode_names_orig + ['...'] * (frequency.shape[1] - len(mode_names_orig));
\* the name '...' is the tuple <<"...">>, as every name of a result file is
\* a tuple
PadModeNames(mode_names_orig, n_cols) ==
    IF Len(mode_names_orig) < n_cols
    THEN mode_names_orig \o [k \in 1..(n_cols - Len(mode_names_orig)) |-> <<"...">>]
    ELSE mode_names_orig

\* BladedLinData.read_coupled_modes
read_coupled_modes(ds, coupled) ==
    LET frequency == coupled.frequency
        damping   == Times100(coupled.damping)
        mode_names_orig == PadModeNames(coupled.AXITICK, frequency.shape[2])
        modes     == [k \in DOMAIN mode_names_orig |-> AEMode(mode_names_orig[k])]
    IN  AssignSeq(ds, <<[name |-> "modes", arr |-> ListArray(modes)],
                        [name |-> "frequency", arr |-> Plane(frequency, 0)],
                        [name |-> "damping", arr |-> Plane(damping, 0)]>>)

\* the first position of the largest member of a list of integers
ArgMax(list) ==
    CHOOSE j \in DOMAIN list :
        /\ \A k \in DOMAIN list : list[k] <= list[j]
        /\ \A k \in 1..(j - 1) : list[k] < list[j]

\* BladedLinData.read_op_data_4p7_4p8, for the one .%02 header of a result
read_op_data_4p7_4p8(ds, side, campbell) ==
    IF ~side.present THEN [exc |-> "none", ds |-> ds, printed |-> <<>>]
    ELSE IF side.AXISLAB = "Wind Speed" /\ campbell.data = <<>>
    THEN [exc |-> "IndexError", ds |-> ds, printed |-> <<>>]
    ELSE IF side.AXISLAB \notin {"Wind Speed", "Rotor Speed"}
    THEN [exc |-> "UnboundLocalError", ds |-> ds, printed |-> <<>>]
    ELSE
    LET all_mode_track_rpms == [i \in DOMAIN campbell.data |-> campbell.data[i].omegas]
        mode_track_lengths  == [i \in DOMAIN campbell.data |-> Len(all_mode_track_rpms[i])]
        longest   == all_mode_track_rpms[ArgMax(mode_track_lengths)]
        uneven    == \E i \in DOMAIN mode_track_lengths :
                         mode_track_lengths[i] # mode_track_lengths[1]
        ones      == [k \in DOMAIN side.AXIVAL |-> FloatScale]
        windspeed == IF side.AXISLAB = "Wind Speed" THEN side.AXIVAL ELSE ones
        rpm       == IF side.AXISLAB = "Wind Speed"
                     THEN IF Len(side.AXIVAL) # Len(longest) THEN ones ELSE longest
                     ELSE [k \in DOMAIN side.AXIVAL |-> RadPerSecToRpm(side.AXIVAL[k])]
        printed   == IF side.AXISLAB = "Wind Speed"
                     THEN (IF uneven THEN <<"Not all mode tracks have the same length">> ELSE <<>>)
                          \o (IF Len(side.AXIVAL) # Len(longest)
                              THEN <<"Rotational speeds from .$CM will be disregarded">>
                              ELSE <<>>)
                     ELSE <<>>
        r == AssignSeq(ds, <<[name |-> "operating_parameter",
                              arr |-> ListArray(<<"wind speed [m/s]", "rot. speed [rpm]">>)],
                             [name |-> "operating_points",
                              arr |-> Columns(<<windspeed, rpm>>)]>>)
    IN  [exc |-> r.exc, ds |-> r.ds, printed |-> printed]

\* BladedLinData.read_coupled_modes_pre4p7, for the one .%02 header of a result
read_coupled_modes_pre4p7(ds, side, coupled) ==
    LET warning == <<"WARNING: Reading the participation factors for Bladed Campbell <4.7 results has not been implemented yet">>
    IN
    IF ~side.present THEN [exc |-> "none", ds |-> ds, printed |-> warning]
    ELSE
    LET rpm       == [k \in DOMAIN side.AXIVAL |-> RadPerSecToRpm(side.AXIVAL[k])]
        frequency == DropLastCols(Plane(coupled.ascii, 0), RotorHarmonicsPre4p7)
        damping   == Times100(DropLastCols(Plane(coupled.ascii, 1), RotorHarmonicsPre4p7))
        modes     == [k \in DOMAIN coupled.AXITICK |-> AEMode(coupled.AXITICK[k])]
        r == AssignSeq(ds, <<[name |-> "operating_parameter",
                              arr |-> ListArray(<<"rot. speed [rpm]">>)],
                             [name |-> "operating_points", arr |-> Columns(<<rpm>>)],
                             [name |-> "modes", arr |-> ListArray(modes)],
                             [name |-> "frequency", arr |-> frequency],
                             [name |-> "damping", arr |-> damping]>>)
    IN  [exc |-> r.exc, ds |-> r.ds,
         printed |-> warning \o <<"WARNING: Bladed Campbell <4.7 does not provide wind speed as operational condition">>]

\* int(tok) of a version field
PyInt(tok) ==
    IF tok # <<>> /\ \A k \in 1..Len(tok) : tok[k] \in Digits
    THEN [ok |-> TRUE, val |-> DigitsValue(tok)]
    ELSE [ok |-> FALSE, val |-> 0]

\* the dispatch that chose the strategy by major and minor version
Strategy_MajorMinor(version) ==
    IF version = None THEN [exc |-> "AttributeError", strategy |-> ""]
    ELSE LET fields == StrSplitOn(version.str, ".")
         IN  IF Len(fields) < 2 THEN [exc |-> "IndexError", strategy |-> ""]
             ELSE LET major == PyInt(fields[1])
                      minor == PyInt(fields[2])
                  IN  IF ~major.ok \/ ~minor.ok THEN [exc |-> "ValueError", strategy |-> ""]
                      ELSE IF major.val < 4 \/ (major.val = 4 /\ minor.val <= 6)
                      THEN [exc |-> "none", strategy |-> "pre4p7"]
                      ELSE IF major.val = 4 /\ minor.val <= 8
                      THEN [exc |-> "none", strategy |-> "4p7_4p8"]
                      ELSE [exc |-> "none", strategy |-> "default"]

\* read_data: the branch int(bladed_version.split('.')[1]) selects
Strategy(version) ==
    IF version = None THEN [exc |-> "AttributeError", strategy |-> ""]
    ELSE LET fields == StrSplitOn(version.str, ".")
         IN  IF Len(fields) < 2 THEN [exc |-> "IndexError", strategy |-> ""]
             ELSE LET minor == PyInt(fields[2])
                  IN  IF ~minor.ok THEN [exc |-> "ValueError", strategy |-> ""]
                      ELSE IF minor.val <= 6 THEN [exc |-> "none", strategy |-> "pre4p7"]
                      ELSE IF minor.val <= 8 THEN [exc |-> "none", strategy |-> "4p7_4p8"]
                      ELSE [exc |-> "none", strategy |-> "default"]

(***************************************************************************)
(* The .$CM table: bladed_result['Campbell diagram']                        *)
(***************************************************************************)
\* the operating points at which mode track i of a linearisation has a result
ConvergedOps(scn, i) == SortedSeq({o \in 1..scn.n_ops : <<o, i>> \notin scn.missing})

\* the participation string of mode track i at operating point o
CmString(i, o) == LinkStrings[((i + o) % 3) + 1]

\* the table Bladed writes for a linearisation: a track has an entry for
\* each of its operating points with a result
ModeTrack(scn, i) ==
    LET u == ConvergedOps(scn, i)
    IN  [freq         |-> [k \in DOMAIN u |-> MulTwoPi(FrequencyOf(u[k], i))],
         particip_str |-> [k \in DOMAIN u |-> CmString(i, u[k])],
         omegas       |-> [k \in DOMAIN u |-> OmegaOf(u[k])]]

CampbellDiagram(scn) ==
    [data               |-> [i \in 1..scn.n_modes |-> ModeTrack(scn, i)],
     coupled_mode_names |-> ModeNames(scn.n_modes)]

\* a table that departs from the coupled-mode output in one place
WithFault(cm, fault, j) ==
    LET track == cm.data[j]
        n     == Len(track.freq)
        last  == Len(cm.data)
    IN  CASE fault = "value_within" /\ n > 0 ->
               [cm EXCEPT !.data[j].freq[1] = @ + @ \div 200]
          [] fault = "value_beyond" /\ n > 0 ->
               [cm EXCEPT !.data[j].freq[1] = @ + @ \div 20]
          [] fault = "extra_entry" ->
               [cm EXCEPT !.data[j] =
                   [freq         |-> Append(track.freq, MulTwoPi(FrequencyOf(n + 1, j))),
                    particip_str |-> Append(track.particip_str, LinkStrings[1]),
                    omegas       |-> Append(track.omegas, OmegaOf(n + 1))]]
          [] fault = "missing_entry" /\ n > 0 ->
               [cm EXCEPT !.data[j] =
                   [freq         |-> SubSeq(track.freq, 1, n - 1),
                    particip_str |-> SubSeq(track.particip_str, 1, n - 1),
                    omegas       |-> SubSeq(track.omegas, 1, n - 1)]]
          [] fault = "malformed_string" /\ n > 0 ->
               [cm EXCEPT !.data[j].particip_str[1] = LinkStrings[4]]
          [] fault = "fewer_modes" ->
               [data               |-> SubSeq(cm.data, 1, last - 1),
                coupled_mode_names |-> SubSeq(cm.coupled_mode_names, 1, last - 1)]
          [] fault = "more_modes" ->
               [data               |-> Append(cm.data, cm.data[last]),
                coupled_mode_names |-> Append(cm.coupled_mode_names, <<"m", last + 1>>)]
          [] OTHER -> cm

AllFaults ==
    {"none", "value_within", "value_beyond", "extra_entry", "missing_entry",
     "malformed_string", "fewer_modes", "more_modes"}

SomeFaults == {"none", "extra_entry", "fewer_modes"}

CampbellDiagrams(scn, faults) ==
    {WithFault(CampbellDiagram(scn), f, j) : f \in faults, j \in 1..scn.n_modes}

(***************************************************************************)
(* BladedLinData.read_cmb_data                                             *)
(***************************************************************************)
RECURSIVE Flatten(_)
\* the members of a list of lists in order
Flatten(lists) == IF lists = <<>> THEN <<>> ELSE lists[1] \o Flatten(Tail(lists))

RECURSIVE Unique(_)
\* list(dict.fromkeys(list)): the first appearance of every member, in order
Unique(list) ==
    IF list = <<>> THEN <<>>
    ELSE LET rest == Unique(SubSeq(list, 1, Len(list) - 1))
             x    == list[Len(list)]
         IN  IF \E k \in 1..Len(rest) : rest[k] = x THEN rest ELSE Append(rest, x)

\* the names of the fragments of one participation string
NamesOf(particip) ==
    LET frags == Fragments(particip)
    IN  [f \in DOMAIN frags |-> UncoupledModeName(frags[f])]

\* a registry gathered from the strings of the first mode track only
uncoupled_mode_names_FirstTrack(data) ==
    IF data = <<>> THEN <<>>
    ELSE Unique(Flatten([k \in DOMAIN data[1].particip_str |-> NamesOf(data[1].particip_str[k])]))

\* the first pass: the names of all fragments of all strings of all mode
\* tracks, without duplicates
uncoupled_mode_names(data) ==
    Unique(Flatten([i \in DOMAIN data |->
              Flatten([k \in DOMAIN data[i].particip_str |-> NamesOf(data[i].particip_str[k])])]))

\* the operating points of one fixed column
used_operating_points_FirstColumn(frequency, i_mode) ==
    SortedSeq({o \in 1..frequency.shape[1] : frequency.a[<<o, 1>>] # NoResult})

\* np.where(self.ds["frequency"][:, i_mode].values != -1)[0]
used_operating_points(frequency, i_mode) ==
    SortedSeq({o \in 1..frequency.shape[1] : frequency.a[<<o, i_mode>>] # NoResult})

\* np.allclose(a, b, rtol=1e-02): lists of different lengths broadcast only
\* when one of them has length 1, else numpy raises ValueError; the
\* absolute tolerance 1e-08 is below the resolution of FloatScale
AllClose(a, b) ==
    IF Len(a) # Len(b) /\ Len(a) # 1 /\ Len(b) # 1
    THEN [exc |-> "ValueError", close |-> FALSE]
    ELSE LET n == IF Len(a) = 1 THEN Len(b) ELSE Len(a)
             A(k) == IF Len(a) = 1 THEN a[1] ELSE a[k]
             B(k) == IF Len(b) = 1 THEN b[1] ELSE b[k]
         IN  [exc |-> "none",
              close |-> \A k \in 1..n : 100 * Abs(A(k) - B(k)) <= Abs(B(k))]

RECURSIVE WriteFragments(_, _, _, _)
\* the loop over the fragments of one participation string: every fragment
\* is parsed and written; a fragment that does not parse raises.  c.parsed
\* lists what the loop has parsed.
WriteFragments(c, frags, operating_point_id, i_mode) ==
    IF frags = <<>> THEN c
    ELSE LET t == ParseTriple(frags[1])
             d == [c EXCEPT !.parsed = Append(@, [operating_point_id |-> operating_point_id,
                                                  i_mode |-> i_mode, name |-> t.name,
                                                  ampl |-> t.ampl, phase |-> t.phase])]
         IN  IF t.exc # "none" THEN [c EXCEPT !.exc = t.exc]
             ELSE IF ~(\E j \in 1..Len(c.uncoupled_mode_names) :
                           c.uncoupled_mode_names[j] = t.name)
             THEN WriteFragments(
                      [d EXCEPT !.printed = Append(@, "could not be found")],
                      Tail(frags), operating_point_id, i_mode)
             ELSE LET p == IndexOf(c.uncoupled_mode_names, t.name)
                  IN  WriteFragments(
                          [d EXCEPT
                             !.participation_factors_amp =
                                 Set3(@, operating_point_id, p, i_mode, t.ampl),
                             !.participation_factors_phase =
                                 Set3(@, operating_point_id, p, i_mode, t.phase)],
                          Tail(frags), operating_point_id, i_mode)

RECURSIVE WriteStrings_ByPosition(_, _, _, _, _)
\* the k-th string written to operating point k
WriteStrings_ByPosition(c, strings, used, i_mode, k) ==
    IF k > Len(strings) \/ k > Len(used) \/ c.exc # "none" THEN c
    ELSE WriteStrings_ByPosition(WriteFragments(c, Fragments(strings[k]), k, i_mode),
                                 strings, used, i_mode, k + 1)

RECURSIVE WriteStrings(_, _, _, _, _)
\* for particip_str, operating_point_id in zip(mode_cmb['particip_str'],
\* used_operating_points): pair k of the shorter of the two lists
WriteStrings(c, strings, used, i_mode, k) ==
    IF k > Len(strings) \/ k > Len(used) \/ c.exc # "none" THEN c
    ELSE WriteStrings(WriteFragments(c, Fragments(strings[k]), used[k], i_mode),
                      strings, used, i_mode, k + 1)

(***************************************************************************)
(* The dataset object in use: BladedLinData.read_data, the readers of      *)
(* HAWCStab2Data, and the removal of modes.  call.pc is the method the     *)
(* object is in ("idle" between calls), call.called the methods read_data  *)
(* has entered, call.exc what the last call raised and call.at where; log  *)
(* is what the last call has printed.  A HAWCStab2 dataset is given one    *)
(* file of each kind, in any order: call.reads are the kinds given so far, *)
(* call.file the file the last reader was given.                           *)
(***************************************************************************)
\* most removals of modes from one dataset
MaxRemovals == 1

Unread == [unread |-> TRUE]

NoLocals == [active |-> FALSE]

IdleCall ==
    [pc |-> "idle", strategy |-> "", exc |-> "none", at |-> "", called |-> <<>>,
     reads |-> {}, removals |-> 0, file |-> Unread]

IsBladed == "attrs" \in DOMAIN self_ds /\ self_ds["attrs"].tool = "Bladed (lin.)"

IsHAWCStab2 == "attrs" \in DOMAIN self_ds /\ self_ds["attrs"].tool = "HAWCStab2"

\* the call in progress raises: the exception leaves read_data
Raise(exc, at) == [call EXCEPT !.pc = "idle", !.exc = exc, !.at = at]

\* the call in progress returns
Return == [call EXCEPT !.pc = "idle"]

\* int(self.ds.attrs["bladed_version"].split('.')[1])
Minor(version) == PyInt(StrSplitOn(version.str, ".")[2]).val

\* read_data up to its first reader: scan_bladed_results, then the branch
\* on the version
ReadData ==
    /\ IsBladed
    /\ call.pc = "idle"
    /\ call.called = <<>>
    /\ \E found \in BOOLEAN :
          LET s == Strategy(self_ds["attrs"].bladed_version)
          IN  IF ~found
              THEN /\ call' = [Raise("FileNotFoundError", "scan") EXCEPT !.called = <<"read_data">>]
                   /\ log' = Append(log, "WARNING: There are no result files")
              ELSE /\ log' = log
                   /\ call' = IF s.exc # "none"
                              THEN [Raise(s.exc, "version") EXCEPT !.called = <<"read_data">>]
                              ELSE [call EXCEPT
                                      !.strategy = s.strategy,
                                      !.called = <<"read_data">>,
                                      !.pc = CASE s.strategy = "pre4p7" -> "read_coupled_modes_pre4p7"
                                               [] s.strategy = "4p7_4p8" -> "read_op_data_4p7_4p8"
                                               [] OTHER -> "read_op_data"]
    /\ UNCHANGED <<self_ds, result_files, cmb>>
    /\ UNCHANGED <<parseVars, linkVars, utilVars>>

ReadOpData ==
    /\ call.pc = "read_op_data"
    /\ \E op \in OpResults(result_files.scn) :
          LET r == read_op_data(self_ds, op)
          IN  /\ self_ds' = r.ds
              /\ result_files' = [result_files EXCEPT !.op = op]
              /\ call' = IF r.exc # "none"
                         THEN [Raise(r.exc, "read_op_data") EXCEPT
                                   !.called = Append(@, "read_op_data")]
                         ELSE [call EXCEPT !.pc = "read_coupled_modes",
                                           !.called = Append(@, "read_op_data")]
    /\ UNCHANGED <<cmb, log>>
    /\ UNCHANGED <<parseVars, linkVars, utilVars>>

ReadOpData4p7_4p8 ==
    /\ call.pc = "read_op_data_4p7_4p8"
    /\ \E side \in SideResults(result_files.scn) :
       \E cm \in IF side.present /\ side.AXISLAB = "Wind Speed"
                 THEN CampbellDiagrams(result_files.scn, SomeFaults)
                 ELSE {Unread} :
          LET r == read_op_data_4p7_4p8(self_ds, side, cm)
          IN  /\ self_ds' = r.ds
              /\ result_files' = [result_files EXCEPT !.side = side, !.campbell = cm]
              /\ log' = log \o r.printed
              /\ call' = IF r.exc # "none"
                         THEN [Raise(r.exc, "read_op_data_4p7_4p8") EXCEPT
                                   !.called = Append(@, "read_op_data_4p7_4p8")]
                         ELSE [call EXCEPT !.pc = "read_coupled_modes",
                                           !.called = Append(@, "read_op_data_4p7_4p8")]
    /\ UNCHANGED cmb
    /\ UNCHANGED <<parseVars, linkVars, utilVars>>

ReadCoupledModes ==
    /\ call.pc = "read_coupled_modes"
    /\ \E v \in CoupledVariants :
          LET coupled == CoupledResult(result_files.scn, v)
              r == read_coupled_modes(self_ds, coupled)
          IN  /\ self_ds' = r.ds
              /\ result_files' = [result_files EXCEPT !.coupled = v]
              /\ call' = IF r.exc # "none"
                         THEN [Raise(r.exc, "read_coupled_modes") EXCEPT
                                   !.called = Append(@, "read_coupled_modes")]
                         ELSE [call EXCEPT
                                 !.called = Append(@, "read_coupled_modes"),
                                 !.pc = IF call.strategy = "4p7_4p8"
                                           /\ Minor(self_ds["attrs"].bladed_version) = 7
                                        THEN "drop_harmonics"
                                        ELSE "read_cmb_data"]
    /\ UNCHANGED <<cmb, log>>
    /\ UNCHANGED <<parseVars, linkVars, utilVars>>

\* version 4.7: n = len(self.ds.mode_ID);
\* self.ds = self.ds.drop_sel(mode_ID=[n-1, ..., n-8])
DropHarmonics ==
    /\ call.pc = "drop_harmonics"
    /\ LET n == CHOOSE x \in DimSizes(self_ds, "mode_ID", "") : TRUE
           r == DropSel(self_ds, (n - RotorHarmonics4p7 + 1)..n)
       IN  /\ self_ds' = r.ds
           /\ call' = IF r.exc # "none" THEN Raise(r.exc, "drop_sel")
                      ELSE [call EXCEPT !.pc = "read_cmb_data"]
    /\ UNCHANGED <<result_files, cmb, log>>
    /\ UNCHANGED <<parseVars, linkVars, utilVars>>

ReadCoupledModesPre4p7 ==
    /\ call.pc = "read_coupled_modes_pre4p7"
    /\ \E side \in SideResults(result_files.scn) :
       \E v \in IF side.present THEN CoupledVariants ELSE {Unread} :
          LET r == read_coupled_modes_pre4p7(
                       self_ds, side,
                       IF side.present THEN CoupledResult(result_files.scn, v) ELSE Unread)
          IN  /\ self_ds' = r.ds
              /\ result_files' = [result_files EXCEPT !.side = side, !.coupled = v]
              /\ log' = log \o r.printed
              /\ call' = IF r.exc # "none"
                         THEN [Raise(r.exc, "read_coupled_modes_pre4p7") EXCEPT
                                   !.called = Append(@, "read_coupled_modes_pre4p7")]
                         ELSE [Return EXCEPT !.called = Append(@, "read_coupled_modes_pre4p7")]
    /\ UNCHANGED cmb
    /\ UNCHANGED <<parseVars, linkVars, utilVars>>

\* a comparison that never finds a difference
CoupledModesDiffer_Never(coupled_mode_names, ds) == FALSE

\* len(coupled_mode_names) != len(self.ds["modes"])
CoupledModesDiffer(coupled_mode_names, ds) ==
    Len(coupled_mode_names) # ds["modes"].shape[1]

\* read_cmb_data up to its loop over the mode tracks: the table is read,
\* the numbers of coupled modes are compared, the names are gathered and
\* the arrays are made
CmbEnter ==
    /\ call.pc = "read_cmb_data"
    /\ \E cm \in IF result_files.campbell = Unread
                 THEN CampbellDiagrams(result_files.scn, SomeFaults)
                 ELSE {result_files.campbell} :
          LET entered == [call EXCEPT !.called = Append(@, "read_cmb_data")]
              n_ops   == CHOOSE x \in DimSizes(self_ds, "operating_point_ID", "") : TRUE
              n_modes == self_ds["modes"].shape[1]
              names   == uncoupled_mode_names(cm.data)
          IN  /\ result_files' = [result_files EXCEPT !.campbell = cm]
              /\ IF ~IsSet(self_ds, "modes")
                 THEN /\ call' = [entered EXCEPT !.pc = "idle", !.exc = "TypeError", !.at = "len"]
                      /\ UNCHANGED <<cmb, log>>
                 ELSE IF CoupledModesDiffer(cm.coupled_mode_names, self_ds)
                 THEN /\ call' = [entered EXCEPT !.pc = "idle"]
                      /\ log' = Append(log, "! Number of coupled modes from .$CM file does not match")
                      /\ UNCHANGED cmb
                 ELSE /\ call' = [entered EXCEPT !.pc = "read_cmb_data loop"]
                      /\ cmb' = [active |-> TRUE,
                                 i_mode |-> 0,
                                 uncoupled_mode_names |-> names,
                                 participation_factors_amp |-> Zeros3(n_ops, Len(names), n_modes),
                                 participation_factors_phase |-> Zeros3(n_ops, Len(names), n_modes),
                                 used_operating_points |-> <<>>,
                                 close |-> TRUE,
                                 parsed |-> <<>>,
                                 printed |-> <<>>,
                                 exc |-> "none"]
                      /\ log' = log
    /\ UNCHANGED self_ds
    /\ UNCHANGED <<parseVars, linkVars, utilVars>>

\* one pass of "for i_mode, mode_cmb in enumerate(campbell_data)";
\* cmb.i_mode counts the passes entered
CmbMode ==
    /\ call.pc = "read_cmb_data loop"
    /\ cmb.i_mode < Len(result_files.campbell.data)
    /\ LET i_mode    == cmb.i_mode + 1
           mode_cmb  == result_files.campbell.data[i_mode]
           frequency == self_ds["frequency"]
           used      == used_operating_points(frequency, i_mode)
           gaps      == IF \E o \in 1..frequency.shape[1] : frequency.a[<<o, 1>>] = NoResult
                        THEN <<"The tracked coupled mode is not complete for all operating points">>
                        ELSE <<>>
           close     == AllClose(mode_cmb.freq,
                                 [k \in DOMAIN used |-> MulTwoPi(frequency.a[<<used[k], i_mode>>])])
           warned    == IF close.close THEN <<>>
                        ELSE <<"The frequencies of the mode read from the .$CM file do not match">>
           c         == WriteStrings([cmb EXCEPT !.i_mode = i_mode,
                                                 !.used_operating_points = used,
                                                 !.close = close.close,
                                                 !.printed = <<>>],
                                     mode_cmb.particip_str, used, i_mode, 1)
       IN  IF close.exc # "none"
           THEN /\ call' = Raise(close.exc, "allclose")
                /\ cmb' = [cmb EXCEPT !.i_mode = i_mode, !.used_operating_points = used,
                                      !.exc = close.exc]
                /\ log' = log \o gaps
           ELSE /\ call' = IF c.exc # "none" THEN Raise(c.exc, "float") ELSE call
                /\ cmb' = c
                /\ log' = log \o gaps \o warned \o c.printed
    /\ UNCHANGED <<self_ds, result_files>>
    /\ UNCHANGED <<parseVars, linkVars, utilVars>>

\* after the loop: the three assignments to the dataset
CmbStore ==
    /\ call.pc = "read_cmb_data loop"
    /\ cmb.i_mode = Len(result_files.campbell.data)
    /\ LET names == cmb.uncoupled_mode_names
           r == AssignSeq(self_ds,
                    <<[name |-> "participation_modes",
                       arr |-> ListArray([k \in DOMAIN names |-> AEMode(names[k])])],
                      [name |-> "participation_factors_amp", arr |-> cmb.participation_factors_amp],
                      [name |-> "participation_factors_phase", arr |-> cmb.participation_factors_phase]>>)
       IN  /\ self_ds' = r.ds
           /\ call' = IF r.exc # "none" THEN Raise(r.exc, "store") ELSE Return
    /\ UNCHANGED <<result_files, cmb, log>>
    /\ UNCHANGED <<parseVars, linkVars, utilVars>>

\* LinearizationDataWrapper.add_data(name, 'hawcstab2', {'filenamecmb': ...})
HS2ReadCmb ==
    /\ IsHAWCStab2
    /\ call.pc = "idle"
    /\ "cmb" \notin call.reads
    /\ \E file \in HS2CmbFiles(result_files.scn) :
          LET r == HS2_read_cmb_data(self_ds, file)
          IN  /\ self_ds' = r.ds
              /\ log' = r.printed
              /\ call' = [call EXCEPT !.reads = @ \cup {"cmb"}, !.exc = r.exc,
                                          !.at = "read_cmb_data", !.file = file]
    /\ UNCHANGED <<result_files, cmb>>
    /\ UNCHANGED <<parseVars, linkVars, utilVars>>

\* LinearizationDataWrapper.add_data(name, 'hawcstab2', {'filenameamp': ...})
HS2ReadAmp ==
    /\ IsHAWCStab2
    /\ call.pc = "idle"
    /\ "amp" \notin call.reads
    /\ \E file \in HS2AmpFiles(result_files.scn) :
          LET r == HS2_read_amp_data(self_ds, file)
          IN  /\ self_ds' = r.ds
              /\ log' = r.printed
              /\ call' = [call EXCEPT !.reads = @ \cup {"amp"}, !.exc = r.exc,
                                          !.at = "read_amp_data", !.file = file]
    /\ UNCHANGED <<result_files, cmb>>
    /\ UNCHANGED <<parseVars, linkVars, utilVars>>

\* LinearizationDataWrapper.add_data(name, 'hawcstab2', {'filenameopt': ...})
HS2ReadOpt ==
    /\ IsHAWCStab2
    /\ call.pc = "idle"
    /\ "opt" \notin call.reads
    /\ \E file \in HS2OptFiles(result_files.scn) :
          LET r == HS2_read_opt_data(self_ds, file)
          IN  /\ self_ds' = r.ds
              /\ log' = r.printed
              /\ call' = [call EXCEPT !.reads = @ \cup {"opt"}, !.exc = r.exc,
                                          !.at = "read_opt_data", !.file = file]
    /\ UNCHANGED <<result_files, cmb>>
    /\ UNCHANGED <<parseVars, linkVars, utilVars>>

\* the mode ids a removal is asked for: the first mode, the first and the
\* last, or an id past the last
RemovalChoices(ds) ==
    LET sizes == DimSizes(ds, "mode_ID", "")
        n     == IF sizes = {} THEN 0 ELSE CHOOSE x \in sizes : TRUE
    IN  {{1}, {1, n}, {n + 1}} \ {{1, 0}}

\* LinearizationDataWrapper.remove_data([mode_ids, dataset, tool]):
\* self[tool][dataset].ds = self[tool][dataset].remove_modes(mode_ids)
RemoveModes ==
    /\ call.pc = "idle"
    /\ IsHAWCStab2 \/ (IsBladed /\ call.called # <<>>)
    /\ call.removals < MaxRemovals
    /\ \E mode_ids \in RemovalChoices(self_ds) :
          LET r == remove_modes(self_ds, mode_ids)
          IN  /\ self_ds' = r.ds
              /\ call' = [call EXCEPT !.removals = @ + 1, !.exc = r.exc, !.at = "remove_modes"]
    /\ UNCHANGED <<result_files, cmb, log>>
    /\ UNCHANGED <<parseVars, linkVars, utilVars>>

\* a dataset object after construction: HAWCStab2Data(), or
\* BladedLinData(result_dir, result_prefix) of the files of one linearisation
InitData ==
    /\ ParseIdle
    /\ LinkIdle
    /\ UtilIdle
    /\ call = IdleCall
    /\ cmb = NoLocals
    /\ log = <<>>
    /\ \/ \E scn \in HS2Scenarios :
             /\ self_ds = EmptyDataset([tool |-> "HAWCStab2"])
             /\ result_files = [scn |-> scn, op |-> Unread, coupled |-> Unread,
                                 side |-> Unread, campbell |-> Unread]
       \/ \E version \in Versions, scn \in Scenarios("first") :
             /\ self_ds = EmptyDataset([tool |-> "Bladed (lin.)", bladed_version |-> version])
             /\ result_files = [scn |-> scn, op |-> Unread, coupled |-> Unread,
                                 side |-> Unread, campbell |-> Unread]

NextData ==
    \/ ReadData
    \/ ReadOpData
    \/ ReadOpData4p7_4p8
    \/ ReadCoupledModes
    \/ DropHarmonics
    \/ ReadCoupledModesPre4p7
    \/ CmbEnter
    \/ CmbMode
    \/ CmbStore
    \/ HS2ReadCmb
    \/ HS2ReadAmp
    \/ HS2ReadOpt
    \/ RemoveModes

SpecData == InitData /\ [][NextData]_vars

(***************************************************************************)
(* read_cmb_data on its own, as tests/test_bladed_interface.py calls it:   *)
(* on a dataset that read_op_data and read_coupled_modes have filled from  *)
(* the files of one linearisation, with a .$CM table that agrees with them *)
(* or departs from them in one place.                                      *)
(***************************************************************************)
InitCmb ==
    /\ ParseIdle
    /\ LinkIdle
    /\ UtilIdle
    /\ cmb = NoLocals
    /\ log = <<>>
    /\ call = [IdleCall EXCEPT !.pc = "read_cmb_data",
                               !.called = <<"read_op_data", "read_coupled_modes">>]
    /\ \E scn \in Scenarios("one") :
       \E cm \in CampbellDiagrams(scn, AllFaults) :
          LET v  == [extra |-> 0, names |-> 0]
              r1 == read_op_data(
                        EmptyDataset([tool |-> "Bladed (lin.)",
                                      bladed_version |-> [str |-> <<"4", ".", "9", ".", "1">>]]),
                        OpResult(scn.n_ops))
              r2 == read_coupled_modes(r1.ds, CoupledResult(scn, v))
          IN  /\ self_ds = r2.ds
              /\ result_files = [scn |-> scn, op |-> OpResult(scn.n_ops), coupled |-> v,
                                 side |-> Unread, campbell |-> cm]

NextCmb ==
    \/ CmbEnter
    \/ CmbMode
    \/ CmbStore

SpecCmb == InitCmb /\ [][NextCmb]_vars

(***************************************************************************)
(* Claims about BladedLinData.read_data and read_cmb_data                  *)
(***************************************************************************)
\* the reader each strategy enters first
FirstReader(strategy) ==
    CASE strategy = "pre4p7" -> "read_coupled_modes_pre4p7"
      [] strategy = "4p7_4p8" -> "read_op_data_4p7_4p8"
      [] OTHER -> "read_op_data"

\* C1: for every version string X.Y.Z with numeric fields, the strategy
\* read_data selects is the one of the pair (major, minor): pre-4.7 below
\* 4.7, the 4.7-4.8 strategy for 4.7 and 4.8, the default strategy from
\* 4.9 on, a major number above 4 included.
C1_DispatchByMajorMinor ==
    (IsBladed /\ Len(call.called) >= 2 /\ call.called[1] = "read_data")
        => LET claimed == Strategy_MajorMinor(self_ds["attrs"].bladed_version)
           IN  /\ claimed.exc = "none"
               /\ call.strategy = claimed.strategy
               /\ call.called[2] = FirstReader(claimed.strategy)

\* the mode track the loop of read_cmb_data has entered last
LoopEntered == cmb.active /\ cmb.i_mode >= 1

\* C3: for every coupled mode i, used_operating_points is the increasing
\* list of exactly the operating points op with frequency[op, i] != -1.
C3_UsedOperatingPoints ==
    LoopEntered =>
        LET used      == cmb.used_operating_points
            frequency == self_ds["frequency"]
        IN  /\ \A k \in 1..(Len(used) - 1) : used[k] < used[k + 1]
            /\ \A op \in 1..frequency.shape[1] :
                  (\E k \in 1..Len(used) : used[k] = op)
                      <=> frequency.a[<<op, cmb.i_mode>>] # -1 * FloatScale
            /\ \A k \in 1..Len(used) : used[k] \in 1..frequency.shape[1]

\* Scenario A: two operating points, two modes, the second mode without
\* result at the first operating point; its used_operating_points is [1]
\* (position 2 here)
C3_Witness ==
    /\ LoopEntered
    /\ cmb.i_mode = 2
    /\ self_ds["frequency"].shape = <<2, 2>>
    /\ self_ds["frequency"].a[<<1, 2>>] = -1 * FloatScale
    /\ self_ds["frequency"].a[<<2, 2>>] # -1 * FloatScale
    /\ cmb.used_operating_points = <<2>>

\* the frequency list of mode track i of the .$CM table disagrees with
\* frequency[used_operating_points, i] * 2 * pi in its number of entries
CountDisagrees(i) ==
    Len(result_files.campbell.data[i].freq) # Len(cmb.used_operating_points)

\* C4: a disagreement between the frequency list of the .$CM table and the
\* frequencies of the coupled-mode output, in value or in number of
\* entries, only warns: read_cmb_data does not raise on it.
C4_MismatchOnlyWarns ==
    (LoopEntered /\ (CountDisagrees(cmb.i_mode) \/ ~cmb.close))
        => ~(call.exc = "ValueError" /\ call.at = "allclose")

\* a record of cmb.parsed after which the same cell is parsed again
Overwritten(k) ==
    \E j \in (k + 1)..Len(cmb.parsed) :
        /\ cmb.parsed[j].operating_point_id = cmb.parsed[k].operating_point_id
        /\ cmb.parsed[j].i_mode = cmb.parsed[k].i_mode
        /\ cmb.parsed[j].name = cmb.parsed[k].name

\* the names of all fragments of all strings of the table, in file order
FragmentNames(data) ==
    Flatten([i \in DOMAIN data |->
        Flatten([k \in DOMAIN data[i].particip_str |-> NamesOf(data[i].particip_str[k])])])

\* C7: in read_cmb_data the 'could not be found' branch is never taken:
\* every name the write pass parses is in the registry, and every parsed
\* record of mode i is stored at [operating_point_id, position of the name
\* in first-appearance order, i] (the last record parsed for a cell is the
\* one the cell holds).
C7_NoUnknownName ==
    /\ \A k \in 1..Len(log) : log[k] # "could not be found"
    /\ cmb.active =>
          LET names == cmb.uncoupled_mode_names
              flat  == FragmentNames(result_files.campbell.data)
              First(n) == CHOOSE k \in 1..Len(flat) :
                              flat[k] = n /\ \A j \in 1..(k - 1) : flat[j] # n
          IN  /\ \A k \in 1..Len(flat) : \E p \in 1..Len(names) : names[p] = flat[k]
              /\ \A p \in 1..Len(names) : \E k \in 1..Len(flat) : flat[k] = names[p]
              /\ \A p, q \in 1..Len(names) : p < q => First(names[p]) < First(names[q])
    /\ cmb.active =>
          \A k \in 1..Len(cmb.parsed) :
              LET r == cmb.parsed[k]
                  names == cmb.uncoupled_mode_names
              IN  \E p \in 1..Len(names) :
                      /\ names[p] = r.name
                      /\ \A q \in 1..Len(names) : names[q] = r.name => q = p
                      /\ ~Overwritten(k) =>
                            /\ cmb.participation_factors_amp.a[<<r.operating_point_id, p, r.i_mode>>] = r.ampl
                            /\ cmb.participation_factors_phase.a[<<r.operating_point_id, p, r.i_mode>>] = r.phase

\* the write pass has stored records of two mode tracks under three names,
\* and the arrays are in the dataset
C7_Witness ==
    /\ cmb.active
    /\ call.pc = "idle"
    /\ call.exc = "none"
    /\ IsSet(self_ds, "participation_factors_amp")
    /\ Len(cmb.uncoupled_mode_names) >= 3
    /\ \E j, k \in 1..Len(cmb.parsed) :
          /\ cmb.parsed[j].i_mode # cmb.parsed[k].i_mode
          /\ cmb.parsed[j].name # cmb.parsed[k].name
    /\ self_ds["participation_factors_amp"] = cmb.participation_factors_amp

(***************************************************************************)
(* Claims about the dimensions of the dataset                              *)
(***************************************************************************)
\* two populated variables agree on the axes they share
SameSize(ds, v, j, w, k) ==
    (IsSet(ds, v) /\ IsSet(ds, w)) => ds[v].shape[j] = ds[w].shape[k]

\* C10: at every stage of every ingestion path and after every removal of
\* modes the populated variables agree on their dimensions: modes has
\* length n_modes, frequency and damping have shape (n_operating_points,
\* n_modes), the participation factors have shape (n_operating_points,
\* n_participation_modes, n_modes), participation_modes has length
\* n_participation_modes.
C10_DimensionsAgree ==
    LET ds == self_ds
    IN  /\ \A v \in {"frequency", "damping", "realpart"} : IsSet(ds, v) => Len(ds[v].shape) = 2
        /\ \A v \in {"participation_factors_amp", "participation_factors_phase"} :
              IsSet(ds, v) => Len(ds[v].shape) = 3
        /\ \A v \in {"modes", "participation_modes"} : IsSet(ds, v) => Len(ds[v].shape) = 1
        /\ \A v, w \in {"frequency", "damping", "realpart"} :
              SameSize(ds, v, 1, w, 1) /\ SameSize(ds, v, 2, w, 2)
        /\ \A v \in {"frequency", "damping", "realpart"} :
              /\ SameSize(ds, v, 2, "modes", 1)
              /\ SameSize(ds, v, 1, "operating_points", 1)
              /\ \A w \in {"participation_factors_amp", "participation_factors_phase"} :
                    SameSize(ds, v, 1, w, 1) /\ SameSize(ds, v, 2, w, 3)
        /\ \A w \in {"participation_factors_amp", "participation_factors_phase"} :
              /\ SameSize(ds, w, 3, "modes", 1)
              /\ SameSize(ds, w, 2, "participation_modes", 1)
              /\ SameSize(ds, w, 1, "operating_points", 1)
        /\ SameSize(ds, "participation_factors_amp", 1, "participation_factors_phase", 1)
        /\ SameSize(ds, "participation_factors_amp", 2, "participation_factors_phase", 2)
        /\ SameSize(ds, "participation_factors_amp", 3, "participation_factors_phase", 3)

\* a Bladed result with fewer mode names than columns has been read by the
\* default strategy, every variable is populated, and a mode was removed
C10_Witness ==
    /\ IsBladed
    /\ call.strategy = "default"
    /\ result_files.coupled # Unread
    /\ result_files.coupled.names < result_files.coupled.extra
    /\ call.pc = "idle"
    /\ call.removals >= 1
    /\ call.exc = "none"
    /\ \A v \in {"frequency", "damping", "modes", "participation_modes",
                 "participation_factors_amp", "participation_factors_phase",
                 "operating_points"} : IsSet(self_ds, v)
    /\ self_ds["modes"].shape[1] >= 1


(***************************************************************************)
(* Claims about failures that are reported                                 *)
(***************************************************************************)
\* the variables of the dataset
DataVariables ==
    {"frequency", "damping", "realpart", "participation_factors_amp",
     "participation_factors_phase", "participation_modes", "modes", "operating_points"}

\* the step is a call of one of the three HAWCStab2 readers with a file
\* that does not exist
ReadsMissingFile ==
    /\ IsHAWCStab2
    /\ call'.reads # call.reads
    /\ call'.file = MissingFile

\* C11: a HAWCStab2 reader that is given a file that does not exist reports
\* it, does not raise and leaves every variable of the dataset as it was
\* before the call.
C11_MissingFileLeavesDataset ==
    [][ReadsMissingFile =>
          /\ call'.exc = "none"
          /\ Len(log') = 1
          /\ \A v \in DataVariables : self_ds'[v] = self_ds[v]]_vars


\* the diagnostic of bladed.py, line 146
CountDiagnostic == "! Number of coupled modes from .$CM file does not match"

\* C12: when the .$CM table has another number of coupled modes than the
\* dataset, read_cmb_data prints a diagnostic and returns without raising,
\* and the dataset is exactly as it was before the call.
C12_CountMismatchReturns ==
    [][(/\ call.pc = "read_cmb_data"
        /\ IsSet(self_ds, "modes")
        /\ Len(result_files'.campbell.coupled_mode_names) # self_ds["modes"].shape[1])
       => /\ call'.pc = "idle"
          /\ call'.exc = "none"
          /\ log' = Append(log, CountDiagnostic)
          /\ cmb' = cmb
          /\ self_ds' = self_ds]_vars

\* read_cmb_data has returned from a table with another number of coupled
\* modes than the dataset, which holds modes, frequency, damping and
\* operating points and no participation data
C12_Witness ==
    /\ call.pc = "idle"
    /\ call.exc = "none"
    /\ call.called # <<>>
    /\ call.called[Len(call.called)] = "read_cmb_data"
    /\ log # <<>>
    /\ log[Len(log)] = CountDiagnostic
    /\ \A v \in {"modes", "frequency", "damping", "operating_points"} : IsSet(self_ds, v)
    /\ Len(result_files.campbell.coupled_mode_names) > self_ds["modes"].shape[1]
    /\ \A v \in {"participation_modes", "participation_factors_amp",
                 "participation_factors_phase"} : ~IsSet(self_ds, v)


(***************************************************************************)
(* Claims about the order of the ingestion stages                          *)
(***************************************************************************)
\* the dataset holds coupled-mode tracks
HasTracks(ds) == IsSet(ds, "frequency") \/ IsSet(ds, "damping")

\* the dataset holds participation data
HasParticipation(ds) ==
    \/ IsSet(ds, "participation_factors_amp")
    \/ IsSet(ds, "participation_factors_phase")
    \/ IsSet(ds, "participation_modes")

\* C13: on every ingestion path the operating points are populated first,
\* then the coupled-mode tracks, then the participation data: no tracks and
\* no participation data while the operating points are unset, and no
\* participation data while the tracks are unset.
C13_OperatingPointsFirst ==
    /\ HasTracks(self_ds) => IsSet(self_ds, "operating_points")
    /\ HasParticipation(self_ds) => IsSet(self_ds, "operating_points")
    /\ HasParticipation(self_ds) => HasTracks(self_ds)


\* the first m positions of axis k of arr, in their order
KeepFirst(arr, k, m) ==
    LET shape == [arr.shape EXCEPT ![k] = m]
    IN  [shape |-> shape, a |-> [x \in Cells(shape) |-> arr.a[x]]]

\* the method read_data has entered last
LastCalled == IF call.called = <<>> THEN "" ELSE call.called[Len(call.called)]

\* C14: for version 4.7 read_data removes the last 8 mode tracks from modes,
\* frequency and damping between read_coupled_modes and read_cmb_data and
\* keeps the first n-8 tracks in their order; for version 4.8 read_cmb_data
\* follows read_coupled_modes with no track removed.
C14_DropsLastEight ==
    [][/\ (call.pc = "read_coupled_modes" /\ call.strategy = "4p7_4p8" /\ call'.pc # "idle")
           => call'.pc = IF Minor(self_ds["attrs"].bladed_version) = 7
                         THEN "drop_harmonics" ELSE "read_cmb_data"
       /\ call.pc = "drop_harmonics"
           => /\ Minor(self_ds["attrs"].bladed_version) = 7
              /\ LastCalled = "read_coupled_modes"
              /\ LET n == self_ds["modes"].shape[1]
                 IN  n >= RotorHarmonics4p7
                       => /\ call'.pc = "read_cmb_data"
                          /\ self_ds'["modes"] = KeepFirst(self_ds["modes"], 1, n - RotorHarmonics4p7)
                          /\ \A v \in {"frequency", "damping"} :
                                self_ds'[v] = KeepFirst(self_ds[v], 2, n - RotorHarmonics4p7)
                          /\ \A v \in DOMAIN self_ds \ {"modes", "frequency", "damping"} :
                                self_ds'[v] = self_ds[v]]_vars

\* read_data of a 4.7 result with ten mode tracks has dropped eight of them
\* and read_cmb_data has stored the participation data of the two left
C14_Witness ==
    /\ IsBladed
    /\ call.strategy = "4p7_4p8"
    /\ Minor(self_ds["attrs"].bladed_version) = 7
    /\ call.pc = "idle"
    /\ call.exc = "none"
    /\ LastCalled = "read_cmb_data"
    /\ result_files.coupled.extra = RotorHarmonics4p7
    /\ IsSet(self_ds, "modes")
    /\ self_ds["modes"].shape[1] = 2
    /\ self_ds["frequency"].shape[2] = 2
    /\ IsSet(self_ds, "participation_factors_amp")


\* plane k of the ascii table that the result files of the dataset hold,
\* scaled by `factor`, without its last RotorHarmonicsPre4p7 columns (a
\* table of no more columns than that keeps none)
AsciiWithoutHarmonics(k, factor) ==
    LET ascii == AsciiResult(result_files.scn, result_files.coupled.extra)
        width == IF ascii.shape[2] > RotorHarmonicsPre4p7
                 THEN ascii.shape[2] - RotorHarmonicsPre4p7 ELSE 0
        shape == <<ascii.shape[1], width>>
    IN  [shape |-> shape,
         a |-> [x \in Cells(shape) |-> factor * ascii.a[<<x[1], x[2], k>>]]]

\* C15: on the pre-4.7 path frequency and damping are the table without its
\* last 9 columns, rotor speed is the only operating parameter, and
\* read_cmb_data is never entered, so that no participation variable is
\* populated.
C15_Pre4p7Path ==
    (IsBladed /\ call.strategy = "pre4p7") =>
        /\ call.pc \in {"idle", "read_coupled_modes_pre4p7"}
        /\ \A k \in 1..Len(call.called) :
              call.called[k] \in {"read_data", "read_coupled_modes_pre4p7"}
        /\ ~HasParticipation(self_ds)
        /\ IsSet(self_ds, "operating_points") =>
              /\ self_ds["operating_parameter"] = ListArray(<<"rot. speed [rpm]">>)
              /\ self_ds["operating_points"].shape[2] = 1
              /\ \A k \in 1..self_ds["operating_points"].shape[1] :
                    self_ds["operating_points"].a[<<k, 1>>]
                        = RadPerSecToRpm(result_files.side.AXIVAL[k])
        /\ (IsSet(self_ds, "frequency") /\ call.removals = 0) =>
              self_ds["frequency"] = AsciiWithoutHarmonics(1, 1)
        /\ (IsSet(self_ds, "damping") /\ call.removals = 0) =>
              self_ds["damping"] = AsciiWithoutHarmonics(2, 100)

\* read_data of a result older than 4.7 has returned with two mode tracks
\* read from a table of eleven columns
C15_Witness ==
    /\ IsBladed
    /\ call.strategy = "pre4p7"
    /\ call.pc = "idle"
    /\ call.exc = "none"
    /\ LastCalled = "read_coupled_modes_pre4p7"
    /\ call.removals = 0
    /\ result_files.coupled # Unread
    /\ result_files.coupled.extra = RotorHarmonicsPre4p7
    /\ IsSet(self_ds, "damping")
    /\ self_ds["frequency"].shape = <<MaxOps, 2>>
    /\ ~HasParticipation(self_ds)


(***************************************************************************)
(* Claims about the decoding of the HAWCStab2 result files                 *)
(***************************************************************************)
\* block b of n columns of a result file, behind its condition column
Block(file, b, n) ==
    [shape |-> <<file.rows, n>>,
     a |-> [x \in Cells(<<file.rows, n>>) |-> FileValue(file, x[1], 1 + (b - 1) * n + x[2])]]

\* read_cmb_data was the last call on the dataset; it was given a table and
\* has returned
HasReadCmbTable ==
    /\ IsHAWCStab2
    /\ call.at = "read_cmb_data"
    /\ call.exc = "none"
    /\ call.removals = 0
    /\ ~call.file.missing

\* C16: read_cmb_data decodes a structural table of n modes into frequency
\* and damping of width n (the first and second block of n columns) and no
\* realpart, and an aeroelastic table of n modes into frequency, damping
\* and realpart of width n (the first, second and third block).
C16_DecodesByAnalysisType ==
    HasReadCmbTable =>
        LET file == call.file
        IN  /\ self_ds["frequency"] = Block(file, 1, file.modes)
            /\ self_ds["damping"] = Block(file, 2, file.modes)
            /\ IF file.blocks = 3
               THEN self_ds["realpart"] = Block(file, 3, file.modes)
               ELSE ~IsSet(self_ds, "realpart")


\* read_amp_data was the only call on the dataset; it was given a table of
\* two or more rows
HasReadAmpTable ==
    /\ IsHAWCStab2
    /\ call.reads = {"amp"}
    /\ call.removals = 0
    /\ ~call.file.missing
    /\ call.file.rows >= 2

\* C17: read_amp_data of a file of 1 + 2*15*m columns returns without
\* raising, with participation arrays of shape (rows, 15, m) and m modes,
\* for every m >= 1.
C17_DecodesEveryModeCount ==
    HasReadAmpTable =>
        LET file == call.file
            m    == (file.cols - 1) \div (2 * Len(sensor_list))
        IN  /\ call.exc = "none"
            /\ \A v \in {"participation_factors_amp", "participation_factors_phase"} :
                  /\ IsSet(self_ds, v)
                  /\ self_ds[v].shape = <<file.rows, Len(sensor_list), m>>
            /\ IsSet(self_ds, "modes")
            /\ self_ds["modes"].shape = <<m>>


(***************************************************************************)
(* AEMode.to_plain_text / from_plain_text and LinearizationDataWrapper     *)
(* save and load: the modes of one dataset are written as plain text to    *)
(* the database file and read back.  database.pc is "memory" before save,  *)
(* "saved" after it and "loaded" after load.                               *)
(***************************************************************************)
\* most modes of a dataset that is saved
MaxSaved == 1

\* the strings a field of a mode is drawn from
FieldStrings == {<<>>, <<"F", "W">>, <<"1", "$", "x">>}

\* AEMode(name=..., symmetry_type=..., whirl_type=..., wt_component=...)
AEModeOf(name, symmetry_type, whirl_type, wt_component) ==
    [name |-> name, symmetry_type |-> symmetry_type, whirl_type |-> whirl_type,
     wt_component |-> wt_component]

\* the modes a dataset may hold
AEModes == {AEModeOf(n, s, w, c) : n \in FieldStrings, s \in FieldStrings,
                                   w \in FieldStrings, c \in FieldStrings}

\* the lists of 1..n elements of S
ListsOf(S, n) == UNION {[1..k -> S] : k \in 1..n}

\* AEMode.to_plain_text
to_plain_text(self) ==
    self.name \o <<"$">> \o self.symmetry_type \o <<"$">> \o self.whirl_type
        \o <<"$">> \o self.wt_component

\* AEMode.from_plain_text: fields 0..3 of plain_text.split('$')
from_plain_text(plain_text) ==
    LET fields == StrSplitOn(plain_text, "$")
    IN  IF Len(fields) < 4 THEN [exc |-> "IndexError", mode |-> None]
        ELSE [exc |-> "none",
              mode |-> AEModeOf(fields[1], fields[2], fields[3], fields[4])]

InitSaveLoad ==
    /\ ParseIdle
    /\ LinkIdle
    /\ DataIdle
    /\ naming = [pc |-> "idle"]
    /\ ViewIdle
    /\ \E modes \in ListsOf(AEModes, MaxSaved), name \in FieldStrings :
          database = [pc |-> "memory",
                      modes |-> modes,
                      participation_modes |-> <<AEModeOf(name, <<>>, <<>>, <<>>)>>,
                      file |-> Unread,
                      exc |-> "none"]

\* LinearizationDataWrapper.save: every mode of the copy is replaced by its
\* plain text and the copy is written to the file
Save ==
    /\ database.pc = "memory"
    /\ database' = [database EXCEPT
                      !.pc = "saved",
                      !.file = [modes |-> [k \in DOMAIN database.modes |->
                                              to_plain_text(database.modes[k])],
                                participation_modes |->
                                    [k \in DOMAIN database.participation_modes |->
                                        to_plain_text(database.participation_modes[k])]]]
    /\ UNCHANGED <<naming, reader, tree>>
    /\ UNCHANGED <<parseVars, linkVars, dataVars>>

\* LinearizationDataWrapper.load: every plain text of the file is replaced
\* by the mode it parses to; the first that raises ends the call
Load ==
    /\ database.pc = "saved"
    /\ LET modes == [k \in DOMAIN database.file.modes |->
                        from_plain_text(database.file.modes[k])]
           participation_modes ==
                    [k \in DOMAIN database.file.participation_modes |->
                        from_plain_text(database.file.participation_modes[k])]
           raised == \/ \E k \in DOMAIN modes : modes[k].exc # "none"
                     \/ \E k \in DOMAIN participation_modes :
                           participation_modes[k].exc # "none"
       IN  database' = [database EXCEPT
                          !.pc = "loaded",
                          !.exc = IF raised THEN "IndexError" ELSE "none",
                          !.modes = IF raised THEN @
                                    ELSE [k \in DOMAIN modes |-> modes[k].mode],
                          !.participation_modes =
                              IF raised THEN @
                              ELSE [k \in DOMAIN participation_modes |->
                                       participation_modes[k].mode]]
    /\ UNCHANGED <<naming, reader, tree>>
    /\ UNCHANGED <<parseVars, linkVars, dataVars>>

NextSaveLoad == Save \/ Load

SpecSaveLoad == InitSaveLoad /\ [][NextSaveLoad]_vars

\* C18: writing a mode as plain text and parsing it back gives a mode with
\* the same fields, for every name, symmetry type, whirl type and
\* component, so that save followed by load restores modes and
\* participation_modes.
C18_PlainTextRoundTrip ==
    [][database.pc = "saved" =>
          /\ database'.exc = "none"
          /\ database'.modes = database.modes
          /\ database'.participation_modes = database.participation_modes]_vars


(***************************************************************************)
(* utilities.assure_unique_name: naming.unique_name is the local of the    *)
(* while loop, naming.original the argument, naming.iterations the passes  *)
(* of the loop so far.                                                     *)
(***************************************************************************)
\* most names in use
MaxOccupied == 3

\* the names a dataset is given and the names in use are drawn from
Names ==
    {<<"a">>,
     <<"a", " ", "(", "1", ")">>,
     <<"a", " ", "(", "2", ")">>,
     <<"a", " ", "(", "9", ")">>,
     <<"a", " ", "(", "1", "0", ")">>,
     <<"(", "1", ")", "(", "1", ")">>,
     <<"(", "5", ")", "b", "(", "1", ")">>,
     <<"(", "5", ")", "b", "(", "2", ")">>,
     <<"a", " ", "(", "0", "9", ")">>,
     <<"a", "(", ")">>}

\* re.findall('\([0-9]+\)', s): the matches as <<first, last>> positions
Matches(s) ==
    {m \in (1..Len(s)) \X (1..Len(s)) :
        /\ m[1] + 1 < m[2]
        /\ s[m[1]] = "("
        /\ s[m[2]] = ")"
        /\ \A k \in (m[1] + 1)..(m[2] - 1) : s[k] \in Digits}

\* the first match, for the last
LastMatch_First(s) == CHOOSE m \in Matches(s) : \A n \in Matches(s) : m[1] <= n[1]

\* re.findall(...)[-1]
LastMatch(s) == CHOOSE m \in Matches(s) : \A n \in Matches(s) : m[1] >= n[1]

\* str(n) for n >= 0
RECURSIVE IntToStr(_)
IntToStr(n) ==
    LET d == CHOOSE c \in Digits : DigitVal(c) = n % 10
    IN  IF n < 10 THEN <<d>> ELSE IntToStr(n \div 10) \o <<d>>

\* s.replace(old, new): every occurrence of old, from the left
RECURSIVE StrReplace(_, _, _)
StrReplace(s, old, new) ==
    LET hits == {p \in 1..(Len(s) - Len(old) + 1) : Slice(s, p, p + Len(old) - 1) = old}
        p    == CHOOSE q \in hits : \A r \in hits : q <= r
    IN  IF hits = {} THEN s
        ELSE Slice(s, 1, p - 1) \o new
                 \o StrReplace(Slice(s, p + Len(old), Len(s)), old, new)

\* the body of the while loop
Renamed(unique_name) ==
    IF Matches(unique_name) # {}
    THEN LET m  == LastMatch(unique_name)
             id == Slice(unique_name, m[1], m[2])
         IN  StrReplace(unique_name, id,
                        <<"(">> \o IntToStr(DigitsValue(Slice(id, 2, Len(id) - 1)) + 1) \o <<")">>)
    ELSE unique_name \o <<" ", "(", "1", ")">>

InitUniqueName ==
    /\ ParseIdle
    /\ LinkIdle
    /\ DataIdle
    /\ database = [pc |-> "idle"]
    /\ ViewIdle
    /\ \E unique_name \in Names :
       \E occupied_names \in {S \in SUBSET Names : Cardinality(S) <= MaxOccupied} :
          naming = [pc |-> "while", original |-> unique_name, unique_name |-> unique_name,
                    occupied_names |-> occupied_names, iterations |-> 0]

\* while unique_name in occupied_names: one pass
Rename ==
    /\ naming.pc = "while"
    /\ naming.unique_name \in naming.occupied_names
    /\ naming' = [naming EXCEPT !.unique_name = Renamed(@), !.iterations = @ + 1]
    /\ UNCHANGED <<database, reader, tree>>
    /\ UNCHANGED <<parseVars, linkVars, dataVars>>

\* return unique_name
ReturnName ==
    /\ naming.pc = "while"
    /\ naming.unique_name \notin naming.occupied_names
    /\ naming' = [naming EXCEPT !.pc = "returned"]
    /\ UNCHANGED <<database, reader, tree>>
    /\ UNCHANGED <<parseVars, linkVars, dataVars>>

NextUniqueName == Rename \/ ReturnName

SpecUniqueName == InitUniqueName /\ [][NextUniqueName]_vars


\* the counters of a name, from the left: the numbers of its '(k)' groups
RECURSIVE CountersOf(_)
CountersOf(s) ==
    IF Matches(s) = {} THEN <<>>
    ELSE LET m == LastMatch(s)
         IN  Append(CountersOf(Slice(s, 1, m[1] - 1)),
                    DigitsValue(Slice(s, m[1] + 1, m[2] - 1)))

\* a name without the digits of its '(k)' groups
RECURSIVE Skeleton(_)
Skeleton(s) ==
    IF Matches(s) = {} THEN s
    ELSE LET m == LastMatch(s)
         IN  Skeleton(Slice(s, 1, m[1] - 1)) \o <<"(", ")">> \o Slice(s, m[2] + 1, Len(s))

\* name ' (k)'
WithCounter(name, k) == name \o <<" ", "(">> \o IntToStr(k) \o <<")">>

\* `result` is `name` with existing counters raised, the last one among them
RaisedFrom(name, result) ==
    LET old == CountersOf(name)
        new == CountersOf(result)
    IN  /\ Skeleton(result) = Skeleton(name)
        /\ Len(new) = Len(old)
        /\ \A g \in 1..Len(old) : new[g] >= old[g]
        /\ new[Len(new)] > old[Len(old)]

\* C19: assure_unique_name terminates, after at most as many passes as
\* there are names in use; it returns the name unchanged when the name is
\* not in use, and otherwise a name that is not in use, which is the name
\* with ' (k)' appended for the first free k >= 1 when the name has no
\* counter, and the name with its counter raised when it has one.
C19_AssureUniqueName ==
    /\ naming.pc # "idle" =>
          naming.iterations <= Cardinality(naming.occupied_names)
    /\ naming.pc = "returned" =>
          LET name     == naming.original
              occupied == naming.occupied_names
              result   == naming.unique_name
          IN  /\ result \notin occupied
              /\ name \notin occupied => (result = name /\ naming.iterations = 0)
              /\ (name \in occupied /\ Matches(name) = {}) =>
                    \E k \in 1..Cardinality(occupied) :
                        /\ result = WithCounter(name, k)
                        /\ \A j \in 1..(k - 1) : WithCounter(name, j) \in occupied
              /\ (name \in occupied /\ Matches(name) # {}) => RaisedFrom(name, result)

\* the name 'a (9)' was in use together with 'a (10)' and has come back
\* after two passes with its counter raised to 11
C19_Witness ==
    /\ naming.pc = "returned"
    /\ naming.original = <<"a", " ", "(", "9", ")">>
    /\ naming.iterations = 2
    /\ naming.unique_name = <<"a", " ", "(", "1", "1", ")">>


(***************************************************************************)
(* LinearizationDataWrapper.remove_data: database.data is the wrapper (a   *)
(* dictionary of tools, each a dictionary of datasets), database.branch    *)
(* the argument of the last call, database.exc what it raised.             *)
(***************************************************************************)
\* most modes of a dataset held by the wrapper
MaxStoredModes == 3

\* most calls of remove_data
MaxRemoveCalls == 2

\* the operating points of a dataset held by the wrapper
StoredOps == 2

\* the participation modes of a dataset held by the wrapper
StoredParticipationModes == 2

\* array of a shape whose cells hold base + 100 * first index + 10 * second
\* index + third index
Numbered(shape, base) ==
    [shape |-> shape,
     a |-> [x \in Cells(shape) |->
              base + 100 * x[1] + (IF Len(x) > 1 THEN 10 * x[2] ELSE 0)
                   + (IF Len(x) > 2 THEN x[3] ELSE 0)]]

\* a dataset as the readers leave it: "full" after an aeroelastic
\* HAWCStab2 ingestion, "tracks" after read_coupled_modes_pre4p7, "empty"
\* after construction
StoredDataset(kind, n_modes, tool) ==
    LET empty  == EmptyDataset([tool |-> tool])
        tracks == [empty EXCEPT
                     !["operating_points"] = Numbered(<<StoredOps, 1>>, 0),
                     !["operating_parameter"] = ListArray(<<"rot. speed [rpm]">>),
                     !["modes"] = ListArray([m \in 1..n_modes |-> AEMode(<<"m", m>>)]),
                     !["frequency"] = Numbered(<<StoredOps, n_modes>>, 1000),
                     !["damping"] = Numbered(<<StoredOps, n_modes>>, 2000)]
    IN  CASE kind = "empty" -> empty
          [] kind = "tracks" -> tracks
          [] OTHER -> [tracks EXCEPT
                         !["realpart"] = Numbered(<<StoredOps, n_modes>>, 3000),
                         !["participation_modes"] =
                             ListArray([p \in 1..StoredParticipationModes |-> AEMode(<<"p", p>>)]),
                         !["participation_factors_amp"] =
                             Numbered(<<StoredOps, StoredParticipationModes, n_modes>>, 4000),
                         !["participation_factors_phase"] =
                             Numbered(<<StoredOps, StoredParticipationModes, n_modes>>, 5000)]

\* the wrapper with the dataset "run" of one tool and a second dataset
\* "other", of the same tool or of the other tool
Wrappers ==
    {[t \in {"HAWCStab2"} |->
        [d \in {"run", "other"} |->
            IF d = "run" THEN StoredDataset(kind, n, t) ELSE StoredDataset("full", 2, t)]] :
        kind \in {"full", "tracks", "empty"}, n \in 1..MaxStoredModes}
    \cup
    {[t \in {"HAWCStab2", "Bladed (lin.)"} |->
        IF t = "Bladed (lin.)" THEN [d \in {"run"} |-> StoredDataset(kind, n, t)]
        ELSE [d \in {"other"} |-> StoredDataset("full", 2, t)]] :
        kind \in {"full", "tracks"}, n \in 1..MaxStoredModes}

\* the branches the tree view hands to remove_data: a tool, a dataset of a
\* tool, modes of a dataset (1-based positions here), or a longer list
Branches ==
    {<<t>> : t \in {"HAWCStab2", "Bladed (lin.)"}}
    \cup {<<d, t>> : d \in {"run", "other"}, t \in {"HAWCStab2", "Bladed (lin.)"}}
    \cup {<<ids, "run", t>> : ids \in (SUBSET (1..(MaxStoredModes + 1))) \ {{}},
                              t \in {"HAWCStab2", "Bladed (lin.)"}}
    \cup {<<{1}, "run", "HAWCStab2", "x">>}

\* f without key k: del f[k]
Del(f, k) == [x \in (DOMAIN f) \ {k} |-> f[x]]

\* what remove_modes prints in its except branch
RemoveModesPrints ==
    <<"Removing data from the xarray dataset did not succeed. This could be due to an outdated xarray versionPlease update to version >0.20.2",
      "Nothing has been removed from the database">>

\* AbstractLinearizationData.remove_modes with its except branch: where
\* self.ds has no drop_sel (an xarray before drop_sel, or self.ds is None)
\* the AttributeError is caught, two lines are printed and the method
\* returns None
remove_modes_with(has_drop_sel, ds, mode_ids) ==
    IF has_drop_sel /\ ds # None
    THEN LET r == remove_modes(ds, mode_ids)
         IN  [exc |-> r.exc, value |-> r.ds, printed |-> <<>>]
    ELSE [exc |-> "none", value |-> None, printed |-> RemoveModesPrints]

\* LinearizationDataWrapper.remove_data, for an xarray with or without
\* drop_sel
remove_data_with(has_drop_sel, self, branch) ==
    IF Len(branch) = 1
    THEN IF branch[1] \notin DOMAIN self THEN [exc |-> "KeyError", self |-> self, printed |-> <<>>]
         ELSE [exc |-> "none", self |-> Del(self, branch[1]), printed |-> <<>>]
    ELSE IF Len(branch) = 2
    THEN IF branch[2] \notin DOMAIN self \/ branch[1] \notin DOMAIN self[branch[2]]
         THEN [exc |-> "KeyError", self |-> self, printed |-> <<>>]
         ELSE [exc |-> "none",
               self |-> [self EXCEPT ![branch[2]] = Del(@, branch[1])],
               printed |-> <<>>]
    ELSE IF Len(branch) = 3
    THEN IF branch[3] \notin DOMAIN self \/ branch[2] \notin DOMAIN self[branch[3]]
         THEN [exc |-> "KeyError", self |-> self, printed |-> <<>>]
         ELSE LET r == remove_modes_with(has_drop_sel, self[branch[3]][branch[2]], branch[1])
              IN  [exc |-> r.exc,
                   self |-> IF r.exc # "none" THEN self
                            ELSE [self EXCEPT ![branch[3]][branch[2]] = r.value],
                   printed |-> r.printed]
    ELSE [exc |-> "none", self |-> self,
          printed |-> <<"The list provided can only have 1, 2, or 3 values. Nothing removed from database">>]

\* LinearizationDataWrapper.remove_data with the xarray the module asks for
\* (data_template.py: "minimal version 0.20.2 (to have drop_sel function)")
remove_data(self, branch) == remove_data_with(TRUE, self, branch)

InitRemove ==
    /\ ParseIdle
    /\ LinkIdle
    /\ DataIdle
    /\ naming = [pc |-> "idle"]
    /\ ViewIdle
    /\ \E data \in Wrappers :
          database = [pc |-> "wrapper", data |-> data, branch |-> <<>>, exc |-> "none",
                      printed |-> <<>>, calls |-> 0]

RemoveData ==
    /\ database.pc = "wrapper"
    /\ database.calls < MaxRemoveCalls
    /\ \E branch \in Branches :
          LET r == remove_data(database.data, branch)
          IN  database' = [database EXCEPT !.data = r.self, !.branch = branch,
                                           !.exc = r.exc, !.printed = r.printed,
                                           !.calls = @ + 1]
    /\ UNCHANGED <<naming, reader, tree>>
    /\ UNCHANGED <<parseVars, linkVars, dataVars>>

NextRemove == RemoveData

SpecRemove == InitRemove /\ [][NextRemove]_vars


\* the position before the removal of the mode that stands at position j
\* after it: the j-th smallest of 1..n that is not listed
SurvivorAt(n, ids, j) ==
    CHOOSE k \in (1..n) \ ids : Cardinality({i \in (1..n) \ ids : i <= k}) = j

\* after holds, along its axis k, the unlisted positions of before in their
\* order and every other axis as before
ListedRemoved(before, after, k, ids) ==
    /\ after.shape = [before.shape EXCEPT ![k] = @ - Cardinality(ids)]
    /\ \A x \in Cells(after.shape) :
          after.a[x] = before.a[[x EXCEPT ![k] = SurvivorAt(before.shape[k], ids, x[k])]]

\* the step is a call of remove_data with a mode branch naming modes that
\* the dataset of the branch holds
RemovesListedModes ==
    /\ database.pc = "wrapper"
    /\ database'.calls = database.calls + 1
    /\ Len(database'.branch) = 3
    /\ database'.branch[3] \in DOMAIN database.data
    /\ database'.branch[2] \in DOMAIN database.data[database'.branch[3]]
    /\ LET ds == database.data[database'.branch[3]][database'.branch[2]]
       IN  /\ IsSet(ds, "modes")
           /\ database'.branch[1] \subseteq 1..ds["modes"].shape[1]

\* C20: remove_data with a mode branch [[ids], dataset, tool] whose ids the
\* dataset holds removes exactly the listed modes from modes, frequency,
\* damping, realpart and both participation arrays of that dataset, keeps the
\* remaining modes in their order, and leaves the operating points, the
\* participation modes, the attributes and every other dataset as they were.
C20_RemovesListedModes ==
    [][RemovesListedModes =>
         LET ids    == database'.branch[1]
             d      == database'.branch[2]
             t      == database'.branch[3]
             before == database.data[t][d]
             after  == database'.data[t][d]
         IN  /\ database'.exc = "none"
             /\ DOMAIN database'.data = DOMAIN database.data
             /\ \A u \in DOMAIN database.data :
                   /\ DOMAIN database'.data[u] = DOMAIN database.data[u]
                   /\ \A e \in DOMAIN database.data[u] :
                         <<u, e>> # <<t, d>> => database'.data[u][e] = database.data[u][e]
             /\ ListedRemoved(before["modes"], after["modes"], 1, ids)
             /\ \A v \in {"frequency", "damping", "realpart"} :
                   IF IsSet(before, v) THEN ListedRemoved(before[v], after[v], 2, ids)
                   ELSE after[v] = before[v]
             /\ \A v \in {"participation_factors_amp", "participation_factors_phase"} :
                   IF IsSet(before, v) THEN ListedRemoved(before[v], after[v], 3, ids)
                   ELSE after[v] = before[v]
             /\ \A v \in (DOMAIN before) \ {"modes", "frequency", "damping", "realpart",
                                             "participation_factors_amp",
                                             "participation_factors_phase"} :
                   after[v] = before[v]
             /\ DOMAIN after = DOMAIN before]_vars

\* two removals of position 1 have left the third of the three modes of a
\* dataset holding every array, next to a dataset of the same tool
C20_Witness ==
    /\ database.pc = "wrapper"
    /\ database.calls = 2
    /\ database.exc = "none"
    /\ Len(database.branch) = 3
    /\ database.branch[1] = {1}
    /\ database.branch[2] = "run"
    /\ "HAWCStab2" \in DOMAIN database.data
    /\ database.branch[3] = "HAWCStab2"
    /\ {"run", "other"} \subseteq DOMAIN database.data["HAWCStab2"]
    /\ LET ds == database.data["HAWCStab2"]["run"]
       IN  /\ IsSet(ds, "participation_factors_amp")
           /\ ds["modes"].shape = <<1>>
           /\ ds["modes"].a[<<1>>] = AEMode(<<"m", 3>>)
           /\ ds["frequency"].a[<<2, 1>>] = 1000 + 200 + 30


(***************************************************************************)
(* Claims about versions without a dispatcher state and about the          *)
(* construction of a Bladed dataset                                        *)
(***************************************************************************)
\* the version maps to no branch of read_data: there is no version, or
\* its second field is missing or not a number
Undispatchable(version) ==
    \/ version = None
    \/ Len(StrSplitOn(version.str, ".")) < 2
    \/ ~PyInt(StrSplitOn(version.str, ".")[2]).ok

\* C21: when the version maps to no dispatcher state (no ApplicationVersion
\* in the .$PJ header, or a minor field that is not a number), read_data
\* does not raise on the version: it selects a reading strategy and prints
\* a diagnostic.
C21_UnknownVersionDegrades ==
    (/\ IsBladed
     /\ Undispatchable(self_ds["attrs"].bladed_version)
     /\ call.called # <<>>
     /\ call.at # "scan")
    => /\ call.at # "version"
       /\ call.strategy # ""
       /\ log # <<>>


(***************************************************************************)
(* LinearizationDataWrapper.add_data: database.data is the wrapper, the    *)
(* dataset object the call constructs or fetches is self_ds (its place in  *)
(* the wrapper holds Reading), and the readers of the dataset run as in    *)
(* SpecData.  database.exc is what add_data raised before any reader.      *)
(***************************************************************************)
\* the place of the dataset object that is being read
Reading == [reading |-> TRUE]

\* no dataset object
NoDataset == [x \in {} |-> None]

\* the header lines of a .$PJ file: whether the line holds
\* 'ApplicationVersion', and line.split('"')
PJLine(has_key, fields) == [has_key |-> has_key, fields |-> fields]

\* the .$PJ files of a result prefix: missing, without ApplicationVersion
\* line, with a line of a version, or with a line without quotes
PJFiles ==
    {MissingFile}
    \cup {[missing |-> FALSE, lines |-> <<PJLine(FALSE, <<"<BladedProject>">>)>>]}
    \cup {[missing |-> FALSE,
           lines |-> <<PJLine(FALSE, <<"<?xml version=", "1.0", "?>">>),
                       PJLine(TRUE, <<"ApplicationVersion=", [str |-> s], ">">>)>>] :
             s \in {<<"4", ".", "6", ".", "2">>, <<"4", ".", "7", ".", "0">>,
                    <<"4", ".", "9", ".", "1">>}}
    \cup {[missing |-> FALSE, lines |-> <<PJLine(TRUE, <<"ApplicationVersion">>)>>]}

\* extract_bladed_version that takes a missing file for one without version
extract_bladed_version_NoFile(pj) ==
    IF pj.missing THEN [exc |-> "none", version |-> None]
    ELSE LET hits == {k \in 1..Len(pj.lines) : pj.lines[k].has_key}
         IN  IF hits = {} THEN [exc |-> "none", version |-> None]
             ELSE LET first == CHOOSE k \in hits : \A j \in hits : k <= j
                  IN  IF Len(pj.lines[first].fields) < 2
                      THEN [exc |-> "IndexError", version |-> None]
                      ELSE [exc |-> "none", version |-> pj.lines[first].fields[2]]

\* BladedLinData.extract_bladed_version: open() raises FileNotFoundError,
\* the first line with 'ApplicationVersion' gives line.split('"')[1]
extract_bladed_version(pj) ==
    IF pj.missing THEN [exc |-> "FileNotFoundError", version |-> None]
    ELSE LET hits == {k \in 1..Len(pj.lines) : pj.lines[k].has_key}
         IN  IF hits = {} THEN [exc |-> "none", version |-> None]
             ELSE LET first == CHOOSE k \in hits : \A j \in hits : k <= j
                  IN  IF Len(pj.lines[first].fields) < 2
                      THEN [exc |-> "IndexError", version |-> None]
                      ELSE [exc |-> "none", version |-> pj.lines[first].fields[2]]

\* BladedLinData(result_dir, result_prefix) with both arguments given
BladedLinData(pj) ==
    LET v == extract_bladed_version(pj)
    IN  [exc |-> v.exc,
         ds |-> EmptyDataset([tool |-> "Bladed (lin.)", bladed_version |-> v.version])]

\* the wrapper before a call of add_data: empty, or holding a dataset "run"
\* of one of the tools
WrappersBefore ==
    {[t \in {} |-> None]}
    \cup {[t \in {tool} |-> [d \in {"run"} |-> StoredDataset("tracks", 2, tool)]] :
            tool \in {"Bladed (lin.)", "HAWCStab2"}}

\* self[tool] = {} if tool not in self
WithTool(self, tool) ==
    IF tool \in DOMAIN self THEN self
    ELSE [t \in (DOMAIN self) \cup {tool} |-> IF t = tool THEN [d \in {} |-> None] ELSE self[t]]

\* self[tool][name] = value
WithDataset(self, tool, name, value) ==
    [self EXCEPT ![tool] = [d \in (DOMAIN self[tool]) \cup {name} |->
                               IF d = name THEN value ELSE self[tool][d]]]

InitAdd ==
    /\ ParseIdle
    /\ LinkIdle
    /\ naming = [pc |-> "idle"]
    /\ ViewIdle
    /\ call = IdleCall
    /\ cmb = NoLocals
    /\ log = <<>>
    /\ self_ds = NoDataset
    /\ \E scn \in Scenarios("first") \cup HS2Scenarios :
          result_files = [scn |-> scn, op |-> Unread, coupled |-> Unread,
                          side |-> Unread, campbell |-> Unread]
    /\ \E data \in WrappersBefore :
          database = [pc |-> "add_data", data |-> data, exc |-> "none",
                      name |-> "", tool |-> "", pj |-> Unread]

\* add_data(name, tool, tool_specific_info) up to the readers of the
\* dataset; the files named by tool_specific_info are those of result_files
AddData ==
    /\ database.pc = "add_data"
    /\ self_ds = NoDataset
    /\ \E name \in {"run", "other"}, tool \in {"bladed-lin", "hawcstab2", "alaska"},
          pj \in PJFiles :
          /\ tool = "hawcstab2" => "missing" \notin DOMAIN result_files.scn /\ pj = MissingFile
          /\ tool = "alaska" => pj = MissingFile
          /\ tool = "bladed-lin" /\ ~pj.missing => "missing" \in DOMAIN result_files.scn
          /\ IF tool = "bladed-lin"
             THEN LET with == WithTool(database.data, "Bladed (lin.)")
                      new  == BladedLinData(pj)
                  IN  IF new.exc # "none"
                      THEN /\ database' = [database EXCEPT !.pc = "done", !.data = with,
                                                           !.exc = new.exc, !.name = name,
                                                           !.tool = tool, !.pj = pj]
                           /\ self_ds' = self_ds
                      ELSE /\ database' = [database EXCEPT
                                              !.pc = "done",
                                              !.data = WithDataset(with, "Bladed (lin.)", name, Reading),
                                              !.name = name, !.tool = tool, !.pj = pj]
                           /\ self_ds' = new.ds
             ELSE IF tool = "hawcstab2"
             THEN LET with == WithTool(database.data, "HAWCStab2")
                  IN  /\ database' = [database EXCEPT
                                         !.pc = "done",
                                         !.data = WithDataset(with, "HAWCStab2", name, Reading),
                                         !.name = name, !.tool = tool, !.pj = pj]
                      /\ self_ds' = IF name \in DOMAIN with["HAWCStab2"]
                                    THEN with["HAWCStab2"][name]
                                    ELSE EmptyDataset([tool |-> "HAWCStab2"])
             ELSE /\ database' = [database EXCEPT !.pc = "done", !.exc = "NotImplementedError",
                                                  !.name = name, !.tool = tool, !.pj = pj]
                  /\ self_ds' = self_ds
    /\ UNCHANGED <<call, cmb, log, result_files, naming, reader, tree>>
    /\ UNCHANGED <<parseVars, linkVars>>

NextAdd ==
    \/ AddData
    \/ ReadData
    \/ ReadOpData
    \/ ReadOpData4p7_4p8
    \/ ReadCoupledModes
    \/ DropHarmonics
    \/ ReadCoupledModesPre4p7
    \/ CmbEnter
    \/ CmbMode
    \/ CmbStore
    \/ HS2ReadCmb
    \/ HS2ReadAmp
    \/ HS2ReadOpt

SpecAdd == InitAdd /\ [][NextAdd]_vars


\* the step is add_data(name, 'bladed-lin', ...) for a result prefix whose
\* .$PJ file does not exist
AddsWithoutHeader ==
    /\ database.pc = "add_data"
    /\ database'.pc = "done"
    /\ database'.tool = "bladed-lin"
    /\ database'.pj = MissingFile

\* C22: creating a Bladed dataset for a result prefix whose .$PJ file does
\* not exist raises FileNotFoundError out of add_data, and the call
\* registers no dataset: no reader runs, and every tool of the wrapper
\* holds the datasets it held before the call.
C22_MissingHeaderRaises ==
    [][AddsWithoutHeader =>
         /\ database'.exc = "FileNotFoundError"
         /\ self_ds' = NoDataset
         /\ call' = call
         /\ \A t \in DOMAIN database.data :
               t \in DOMAIN database'.data /\ database'.data[t] = database.data[t]
         /\ \A t \in (DOMAIN database'.data) \ (DOMAIN database.data) :
               DOMAIN database'.data[t] = {}]_vars

\* add_data for a missing .$PJ file has raised on a wrapper that holds a
\* Bladed dataset of the requested name
C22_Witness ==
    /\ database.pc = "done"
    /\ database.tool = "bladed-lin"
    /\ database.pj = MissingFile
    /\ database.name = "run"
    /\ database.exc = "FileNotFoundError"
    /\ "Bladed (lin.)" \in DOMAIN database.data
    /\ "run" \in DOMAIN database.data["Bladed (lin.)"]


(***************************************************************************)
(* HS2BINReader: reader.buff is the cached binary file, a sequence of      *)
(* records (a 32 bit byte count, the items, a 32 bit trailer);             *)
(* reader.offset is the byte offset, reader.pc the loop of __read_turbine  *)
(* or __read_opstate the constructor stands at, with the loop variables   *)
(* of that name (0-based as in the source; i_body = -1: not bound yet;    *)
(* body is the position of the loop over the bodies that assigns i_body), *)
(* reader.exc what the constructor raised.                                 *)
(***************************************************************************)
\* most bodies of a substructure
MaxBodies == 2

\* most elements of a body
MaxElements == 1

\* most modes stored in a binary file
MaxBinModes == 2

\* most steps (operating points) stored in a binary file
MaxSteps == 2

\* self.__num_DOF
num_DOF == 6

\* the turbines a binary file is written for: the bodies of each of its
\* substructures (each with the same number of elements), the modes and
\* the steps, and the width in bytes of its reals
Turbines ==
    {[bodies |-> b, elements |-> e, num_modes |-> m, num_steps |-> s, real |-> w] :
        b \in {<<b1, b2, b3>> : b1 \in 0..MaxBodies, b2 \in 0..MaxBodies, b3 \in 0..MaxBodies},
        e \in 0..MaxElements, m \in 0..MaxBinModes, s \in 1..MaxSteps, w \in {4, 8}}

\* what the writer puts into a record: integers, or count reals
Ints(values) == [int |-> TRUE, values |-> values, count |-> Len(values)]

Reals(count) == [int |-> FALSE, values |-> <<>>, count |-> count]

\* the reals of one displacement array of a body: 2 * num_DOF * (elements + 1)
ShapeCount(t) == 2 * num_DOF * (t.elements + 1)

\* the records of the file of turbine t in their order: the substructures
\* with their bodies and elements, then the modes and steps and, for each
\* step, the operational data and the mode shapes (one array a mode and
\* body for the first two substructures, three for the others)
FileLayout(t) ==
    LET body == <<Ints(<<t.elements>>)>> \o [e \in 1..t.elements |-> Reals(1)]
        sub(i) == <<Ints(<<t.bodies[i]>>)>> \o Flatten([b \in 1..t.bodies[i] |-> body])
        arrays(i) == IF i <= 2 THEN <<Reals(ShapeCount(t))>>
                     ELSE <<Reals(ShapeCount(t)), Reals(ShapeCount(t)), Reals(ShapeCount(t))>>
        shapes(i) == Flatten([m \in 1..t.num_modes |->
                                 Flatten([b \in 1..t.bodies[i] |-> arrays(i)])])
        step == <<Reals(1), Reals(3)>> \o Flatten([i \in 1..Len(t.bodies) |-> shapes(i)])
    IN  <<Ints(<<Len(t.bodies)>>)>>
        \o Flatten([i \in 1..Len(t.bodies) |-> sub(i)])
        \o <<Ints(<<t.num_modes, t.num_steps>>)>>
        \o Flatten([s \in 1..t.num_steps |-> step])

\* the bytes of a record: a 32 bit count, the items (integers are 32 bit,
\* reals `real` bytes wide), a 32 bit trailer
RecordBytes(rec, real) == 4 + (IF rec.int THEN 4 ELSE real) * rec.count + 4

\* the byte offset at which record k of a layout begins
RECURSIVE StartOf(_, _, _)
StartOf(layout, real, k) ==
    IF k = 1 THEN 0 ELSE StartOf(layout, real, k - 1) + RecordBytes(layout[k - 1], real)

\* the file of turbine t: each record with the offset it begins at, its
\* byte count and its items; the reals of record k are 100 * k + 1,
\* 100 * k + 2, ...
BinFile(t) ==
    LET layout == FileLayout(t)
    IN  [k \in 1..Len(layout) |->
           [start |-> StartOf(layout, t.real, k),
            num_bytes |-> RecordBytes(layout[k], t.real) - 8,
            data |-> IF layout[k].int THEN layout[k].values
                     ELSE [j \in 1..layout[k].count |-> 100 * k + j]]]

\* HS2BINReader.__read_data(dtype, count) at self.__offset: the byte count
\* selects the width of the items; no width fits: byte_offset stays None
\* and byte_offset * count raises TypeError; np.int128 does not exist; an
\* offset at the end of the buffer raises ValueError in np.frombuffer
read_data(self, dtype, count) ==
    LET at == {k \in 1..Len(self.buff) : self.buff[k].start = self.offset}
    IN  IF at = {} THEN [self EXCEPT !.exc = "ValueError", !.data = <<>>]
        ELSE LET rec == self.buff[CHOOSE k \in at : TRUE]
                 byte_offset == CASE rec.num_bytes = 4 * count -> 4
                                  [] rec.num_bytes = 8 * count -> 8
                                  [] rec.num_bytes = 16 * count -> 16
                                  [] OTHER -> 0
             IN  IF byte_offset = 0 THEN [self EXCEPT !.exc = "TypeError", !.data = <<>>]
                 ELSE IF byte_offset = 16 /\ dtype = "int"
                 THEN [self EXCEPT !.exc = "AttributeError", !.data = <<>>]
                 ELSE [self EXCEPT !.offset = @ + 4 + byte_offset * count + 4,
                                   !.data = rec.data]

\* ModeClass()
ModeClass == [ua0 |-> None, ua1 |-> None, ub1 |-> None]

\* -data.reshape([2, int(data.size/2)]).T
ShapeArray(data) ==
    LET half == Len(data) \div 2
    IN  [shape |-> <<half, 2>>,
         a |-> [x \in Cells(<<half, 2>>) |-> 0 - data[(x[2] - 1) * half + x[1]]]]

\* data = -self.__read_data(float, count); ...modes[i_mode].<field> = data.reshape(...).T
\* for the body and mode the loops stand at
ReadShape(self, field) ==
    IF self.exc # "none" THEN self
    ELSE LET numele == Len(self.substructure[self.i_subs + 1].bodies[self.i_body + 1].s)
             r == read_data(self, "float", 2 * num_DOF * (numele + 1))
         IN  IF r.exc # "none" THEN r
             ELSE [r EXCEPT !.substructure[self.i_subs + 1].opstate[self.i_state + 1]
                               .bodies[self.i_body + 1].modes[self.i_mode + 1][field] =
                                   ShapeArray(r.data)]

\* np.rad2deg(-x) of x in units of 1/FloatScale
RadToDegNeg(x) ==
    LET y == (0 - x) * 180
    IN  (y \div Pi) * FloatScale + ((y % Pi) * FloatScale) \div Pi

\* self.operational_data[:,1] = np.rad2deg(-self.operational_data[:,1])
switch_pitch(self) ==
    [self EXCEPT !.operational_data =
        [s \in DOMAIN @ |-> [@[s] EXCEPT ![2] = RadToDegNeg(@)]]]

\* the reader at the start of its constructor
NewReader(file) ==
    [pc |-> "read_file", file |-> file, buff |-> <<>>, offset |-> 0, data |-> <<>>,
     exc |-> "none", substructure |-> <<>>, num_modes |-> 0, num_steps |-> 0,
     operational_data |-> None,
     num_subs |-> 0, isub |-> 0, num_bodies |-> 0, ibody |-> 0, iele |-> 0,
     i_state |-> 0, i_subs |-> 0, i_mode |-> 0, i_body |-> -1, body |-> 0]

\* the call in progress raises, or goes on at pc
Goes(self, pc) == [self EXCEPT !.pc = IF self.exc # "none" THEN "raised" ELSE pc]

InitBin ==
    /\ ParseIdle
    /\ LinkIdle
    /\ DataIdle
    /\ database = [pc |-> "idle"]
    /\ naming = [pc |-> "idle"]
    /\ tree = [pc |-> "idle"]
    /\ \E file \in {MissingFile} \cup {[missing |-> FALSE, turbine |-> t] : t \in Turbines} :
          reader = NewReader(file)

\* HS2BINReader.__read_file
BinReadFile ==
    /\ reader.pc = "read_file"
    /\ reader' = IF reader.file.missing
                 THEN [reader EXCEPT !.pc = "raised", !.exc = "FileNotFoundError"]
                 ELSE [reader EXCEPT !.pc = "read_turbine", !.buff = BinFile(reader.file.turbine)]
    /\ UNCHANGED <<database, naming, tree>>
    /\ UNCHANGED <<parseVars, linkVars, dataVars>>

\* __read_turbine: num_subs = self.__read_data(dtype=int,count=1)
BinNumSubs ==
    /\ reader.pc = "read_turbine"
    /\ LET r == read_data(reader, "int", 1)
       IN  reader' = IF r.exc # "none" THEN Goes(r, "")
                     ELSE [r EXCEPT !.pc = "for isub", !.num_subs = r.data[1], !.isub = 0]
    /\ UNCHANGED <<database, naming, tree>>
    /\ UNCHANGED <<parseVars, linkVars, dataVars>>

\* __read_turbine: for isub in range(num_subs)
BinForSub ==
    /\ reader.pc = "for isub"
    /\ IF reader.isub >= reader.num_subs
       THEN reader' = [reader EXCEPT !.pc = "read_opstate"]
       ELSE LET r == read_data([reader EXCEPT !.substructure =
                                    Append(@, [bodies |-> <<>>, opstate |-> <<>>])],
                               "int", 1)
            IN  reader' = IF r.exc # "none" THEN Goes(r, "")
                          ELSE [r EXCEPT !.pc = "for ibody", !.num_bodies = r.data[1],
                                         !.ibody = 0]
    /\ UNCHANGED <<database, naming, tree>>
    /\ UNCHANGED <<parseVars, linkVars, dataVars>>

\* __read_turbine: for ibody in range(num_bodies); np.empty([num_elements])
\* holds no value yet (None here)
BinForBody ==
    /\ reader.pc = "for ibody"
    /\ IF reader.ibody >= reader.num_bodies
       THEN reader' = [reader EXCEPT !.pc = "for isub", !.isub = @ + 1]
       ELSE LET r == read_data([reader EXCEPT !.substructure[reader.isub + 1].bodies =
                                    Append(@, [s |-> None])],
                               "int", 1)
            IN  reader' = IF r.exc # "none" THEN Goes(r, "")
                          ELSE [r EXCEPT
                                  !.pc = "for iele", !.iele = 0,
                                  !.substructure[reader.isub + 1].bodies[reader.ibody + 1].s =
                                      [e \in 1..r.data[1] |-> None]]
    /\ UNCHANGED <<database, naming, tree>>
    /\ UNCHANGED <<parseVars, linkVars, dataVars>>

\* __read_turbine: for iele in range(num_elements)
BinForElement ==
    /\ reader.pc = "for iele"
    /\ IF reader.iele >= Len(reader.substructure[reader.isub + 1].bodies[reader.ibody + 1].s)
       THEN reader' = [reader EXCEPT !.pc = "for ibody", !.ibody = @ + 1]
       ELSE LET r == read_data(reader, "float", 1)
            IN  reader' = IF r.exc # "none" THEN Goes(r, "")
                          ELSE [r EXCEPT
                                  !.iele = @ + 1,
                                  !.substructure[reader.isub + 1].bodies[reader.ibody + 1]
                                      .s[reader.iele + 1] = r.data[1]]
    /\ UNCHANGED <<database, naming, tree>>
    /\ UNCHANGED <<parseVars, linkVars, dataVars>>

\* __read_opstate up to its loop over the states
BinOpstateInfo ==
    /\ reader.pc = "read_opstate"
    /\ LET r == read_data(reader, "int", 2)
       IN  reader' = IF r.exc # "none" THEN Goes(r, "")
                     ELSE [r EXCEPT !.pc = "for i_state", !.i_state = 0,
                                    !.num_modes = r.data[1], !.num_steps = r.data[2],
                                    !.operational_data = [s \in 1..r.data[2] |-> <<0, 0, 0>>]]
    /\ UNCHANGED <<database, naming, tree>>
    /\ UNCHANGED <<parseVars, linkVars, dataVars>>

\* __read_opstate: for i_state in range(self.num_steps), and what follows
\* the loop
BinForState ==
    /\ reader.pc = "for i_state"
    /\ IF reader.i_state >= reader.num_steps
       THEN reader' = [switch_pitch(reader) EXCEPT !.pc = "decoded"]
       ELSE LET dummy == read_data(reader, "float", 1)
                r == IF dummy.exc # "none" THEN dummy ELSE read_data(dummy, "float", 3)
            IN  reader' = IF r.exc # "none" THEN Goes(r, "")
                          ELSE [r EXCEPT !.pc = "for i_subs", !.i_subs = 0,
                                         !.operational_data[reader.i_state + 1] = r.data]
    /\ UNCHANGED <<database, naming, tree>>
    /\ UNCHANGED <<parseVars, linkVars, dataVars>>

\* __read_opstate: for i_subs in range(self.numsubstr()): the OpstatesClass
\* and the allocation loop "for i_body in range(numbody)"
BinForSubstructure ==
    /\ reader.pc = "for i_subs"
    /\ IF reader.i_subs >= Len(reader.substructure)
       THEN reader' = [reader EXCEPT !.pc = "for i_state", !.i_state = @ + 1]
       ELSE LET numbody == Len(reader.substructure[reader.i_subs + 1].bodies)
            IN  reader' = [reader EXCEPT
                             !.pc = "for i_mode", !.i_mode = 0,
                             !.i_body = IF numbody > 0 THEN numbody - 1 ELSE @,
                             !.substructure[reader.i_subs + 1].opstate =
                                 Append(@, [bodies |-> [b \in 1..numbody |-> [modes |-> <<>>]]])]
    /\ UNCHANGED <<database, naming, tree>>
    /\ UNCHANGED <<parseVars, linkVars, dataVars>>

\* __read_opstate: for i_mode in range(self.num_modes); in the three-bladed
\* branch a ModeClass is appended to bodies[i_body] before the loop over
\* the bodies (unbound i_body: UnboundLocalError; no such body: IndexError)
BinForMode ==
    /\ reader.pc = "for i_mode"
    /\ IF reader.i_mode >= reader.num_modes
       THEN reader' = [reader EXCEPT !.pc = "for i_subs", !.i_subs = @ + 1]
       ELSE IF reader.i_subs < 2
       THEN reader' = [reader EXCEPT !.pc = "for i_body", !.body = 0]
       ELSE IF reader.i_body = -1
       THEN reader' = [reader EXCEPT !.pc = "raised", !.exc = "UnboundLocalError"]
       ELSE IF reader.i_body >=
                 Len(reader.substructure[reader.i_subs + 1].opstate[reader.i_state + 1].bodies)
       THEN reader' = [reader EXCEPT !.pc = "raised", !.exc = "IndexError"]
       ELSE reader' = [reader EXCEPT
                          !.pc = "for i_body", !.body = 0,
                          !.substructure[reader.i_subs + 1].opstate[reader.i_state + 1]
                              .bodies[reader.i_body + 1].modes = Append(@, ModeClass)]
    /\ UNCHANGED <<database, naming, tree>>
    /\ UNCHANGED <<parseVars, linkVars, dataVars>>

\* __read_opstate: for i_body in range(numbody): append a ModeClass and
\* read ua0 (first two substructures) or ua0, ua1, ub1 (three-bladed) into
\* modes[i_mode]
BinForModeBody ==
    /\ reader.pc = "for i_body"
    /\ IF reader.body >= Len(reader.substructure[reader.i_subs + 1].bodies)
       THEN reader' = [reader EXCEPT !.pc = "for i_mode", !.i_mode = @ + 1]
       ELSE LET a == [reader EXCEPT
                        !.i_body = reader.body,
                        !.substructure[reader.i_subs + 1].opstate[reader.i_state + 1]
                            .bodies[reader.body + 1].modes = Append(@, ModeClass)]
                r == IF reader.i_subs < 2 THEN ReadShape(a, "ua0")
                     ELSE ReadShape(ReadShape(ReadShape(a, "ua0"), "ua1"), "ub1")
            IN  reader' = IF r.exc # "none" THEN Goes(r, "")
                          ELSE [r EXCEPT !.body = @ + 1]
    /\ UNCHANGED <<database, naming, tree>>
    /\ UNCHANGED <<parseVars, linkVars, dataVars>>

NextBin ==
    \/ BinReadFile
    \/ BinNumSubs
    \/ BinForSub
    \/ BinForBody
    \/ BinForElement
    \/ BinOpstateInfo
    \/ BinForState
    \/ BinForSubstructure
    \/ BinForMode
    \/ BinForModeBody

SpecBin == InitBin /\ [][NextBin]_vars


(***************************************************************************)
(* Claims about HS2BINReader                                               *)
(***************************************************************************)
\* C23: after the reader has decoded a well-formed buffer with three
\* substructures, the mode list of every body of every substructure and
\* step holds exactly num_modes entries; each entry of the first two
\* substructures carries ua0 and each entry of the third carries ua0, ua1
\* and ub1, none of them unset.
C23_ModeListsComplete ==
    (reader.pc = "decoded" /\ Len(reader.substructure) = 3) =>
        \A i_subs \in 1..3 :
        \A i_state \in 1..reader.num_steps :
        \A i_body \in 1..Len(reader.substructure[i_subs].bodies) :
            LET modes == reader.substructure[i_subs].opstate[i_state].bodies[i_body].modes
            IN  /\ Len(modes) = reader.num_modes
                /\ \A i_mode \in 1..Len(modes) :
                      /\ modes[i_mode].ua0 # None
                      /\ i_subs = 3 => modes[i_mode].ua1 # None /\ modes[i_mode].ub1 # None


(***************************************************************************)
(* Claims about HAWCStab2Data.read_amp_data                                *)
(***************************************************************************)
\* read_amp_data was the last reader called, on a table with more than one
\* row, and has stored the participation arrays
StoredAmpTable ==
    /\ IsHAWCStab2
    /\ call.at = "read_amp_data"
    /\ ~call.file.missing
    /\ call.file.rows > 1
    /\ call.exc \in {"none", "IndexError"}

\* C24: the slice-based decoding of read_amp_data equals the index-based
\* reference decoding: for every mode i and sensor j (0 <= j < 15),
\* participation_factors_amp[:, j, i] is column 30*i + 1 + 2*j and
\* participation_factors_phase[:, j, i] is column 30*i + 2 + 2*j of the
\* table, for every number of modes int((columns - 1) / 15 / 2).
C24_SlicesEqualIndices ==
    StoredAmpTable =>
        LET num_modes_1 == (call.file.cols - 1) \div 30
            amp   == self_ds["participation_factors_amp"]
            phase == self_ds["participation_factors_phase"]
        IN  /\ amp.shape = <<call.file.rows, 15, num_modes_1>>
            /\ phase.shape = <<call.file.rows, 15, num_modes_1>>
            /\ \A i \in 0..(num_modes_1 - 1) : \A j \in 0..14 : \A row \in 1..call.file.rows :
                  /\ amp.a[<<row, j + 1, i + 1>>] =
                         FileValue(call.file, row, (30 * i + 1 + 2 * j) + 1)
                  /\ phase.a[<<row, j + 1, i + 1>>] =
                         FileValue(call.file, row, (30 * i + 2 + 2 * j) + 1)

\* read_amp_data has decoded a table of three modes
C24_Witness ==
    /\ StoredAmpTable
    /\ call.exc = "none"
    /\ call.file.cols = 1 + 30 * 3
    /\ self_ds["participation_factors_amp"].shape[3] = 3


(***************************************************************************)
(* TreeModel: the items of the tree are the paths <<tool>>, <<tool,        *)
(* dataset>>, <<tool, dataset, mode>> below the root item <<>>;            *)
(* tree.itemActivity and tree.itemVisibleActivity are the fields of that   *)
(* name of every item, tree.exc what the last call raised.                 *)
(***************************************************************************)
\* Qt.Checked
Checked == 2

\* Qt.Unchecked
Unchecked == 0

\* the modes of every dataset of every tool of the tree
TreeShape == <<<<2, 1>>, <<1>>>>

rootItem == <<>>

ToolItems == {<<t>> : t \in 1..Len(TreeShape)}

DatasetItems == UNION {{<<t, d>> : d \in 1..Len(TreeShape[t])} : t \in 1..Len(TreeShape)}

ModeItems ==
    UNION {UNION {{<<t, d, m>> : m \in 1..TreeShape[t][d]} : d \in 1..Len(TreeShape[t])} :
              t \in 1..Len(TreeShape)}

TreeItems == {rootItem} \cup ToolItems \cup DatasetItems \cup ModeItems

\* item.parent()
ParentItem(item) == SubSeq(item, 1, Len(item) - 1)

\* item is below base in the tree
IsBelow(item, base) ==
    Len(item) > Len(base) /\ SubSeq(item, 1, Len(base)) = base

\* item.itemData of a mode item: the modes of a dataset whirl backward and
\* forward in turn
ModeData(item) ==
    AEModeOf(<<"m">>, <<>>, IF item[3] % 2 = 1 THEN <<"B", "W">> ELSE <<"F", "W">>, <<>>)

\* the filters of the filter dialog: (symmetry_type, whirl_type, wt_component)
Filters == {<<"all", "all", "all">>, <<"all", <<"B", "W">>, "all">>,
            <<"all", <<"F", "W">>, "all">>, <<<<"S">>, "all", "all">>}

\* the field equals the filter entry, or the entry is 'all'
Passes(field, entry) == IF entry = "all" THEN TRUE ELSE entry = field

\* AEMode.filter
filter(self, f) ==
    IF Passes(self.symmetry_type, f[1]) /\ Passes(self.whirl_type, f[2])
       /\ Passes(self.wt_component, f[3])
    THEN Checked ELSE Unchecked

\* the selections of the view: one item or two
Selections == {{x, y} : x \in TreeItems \ {rootItem}, y \in TreeItems \ {rootItem}}

\* Python's "a and b" on check states
PyAnd(a, b) == IF a = Unchecked THEN a ELSE b

\* "item.itemActivity and child.itemActivity and ..." down to the item x
\* below item
RECURSIVE ActivityChain(_, _, _)
ActivityChain(self, item, x) ==
    IF x = item THEN self.itemActivity[item]
    ELSE PyAnd(ActivityChain(self, item, ParentItem(x)), self.itemActivity[x])

\* TreeModel.updateActivityRepresentation(item)
updateActivityRepresentation(self, item) ==
    [self EXCEPT !.itemVisibleActivity =
        [x \in TreeItems |->
            IF x = item /\ item # rootItem
            THEN PyAnd(self.itemVisibleActivity[ParentItem(item)], self.itemActivity[item])
            ELSE IF IsBelow(x, item) /\ Len(x) - Len(item) <= 3
            THEN ActivityChain(self, item, x)
            ELSE self.itemVisibleActivity[x]]]

\* TreeModel.updateActiveData: the entry of a dataset is made only when the
\* dataset is visibly active, so a visibly active mode of another dataset
\* of a visibly active tool raises KeyError
updateActiveData(self) ==
    IF \E m \in ModeItems :
          /\ self.itemVisibleActivity[<<m[1]>>] = Checked
          /\ self.itemVisibleActivity[<<m[1], m[2]>>] # Checked
          /\ self.itemVisibleActivity[m] = Checked
    THEN [self EXCEPT !.exc = "KeyError", !.pc = "raised"]
    ELSE self

\* the tree after addModelData with every item in view_cfg.active_data
InitTree ==
    /\ ParseIdle
    /\ LinkIdle
    /\ DataIdle
    /\ database = [pc |-> "idle"]
    /\ naming = [pc |-> "idle"]
    /\ reader = [pc |-> "idle"]
    /\ tree = [pc |-> "tree", exc |-> "none",
               itemActivity |-> [x \in TreeItems |-> Checked],
               itemVisibleActivity |-> [x \in TreeItems |-> Checked]]

\* TreeModel.setData(index, value, Qt.CheckStateRole)
SetData ==
    /\ tree.pc = "tree"
    /\ \E item \in TreeItems \ {rootItem}, value \in {Checked, Unchecked} :
          tree' = updateActiveData(
                      updateActivityRepresentation(
                          [tree EXCEPT !.itemActivity[item] = value], item))
    /\ UNCHANGED <<database, naming, reader>>
    /\ UNCHANGED <<parseVars, linkVars, dataVars>>

\* TreeModel.set_checked(index, checked_state): the item, its children and
\* their children
SetCheckedBelow ==
    /\ tree.pc = "tree"
    /\ \E base_node \in ToolItems \cup DatasetItems, checked_state \in {Checked, Unchecked} :
          LET set == [tree EXCEPT !.itemActivity =
                         [x \in TreeItems |->
                             IF x = base_node
                                \/ (IsBelow(x, base_node) /\ Len(x) - Len(base_node) <= 2)
                             THEN checked_state ELSE @[x]]]
          IN  tree' = updateActiveData(updateActivityRepresentation(set, base_node))
    /\ UNCHANGED <<database, naming, reader>>
    /\ UNCHANGED <<parseVars, linkVars, dataVars>>

\* TreeModel.set_checked(index, checked_state, only_selected=True, selection)
SetCheckedSelected ==
    /\ tree.pc = "tree"
    /\ \E selection \in Selections, checked_state \in {Checked, Unchecked} :
          LET set == [tree EXCEPT !.itemActivity =
                         [x \in TreeItems |-> IF x \in selection THEN checked_state ELSE @[x]]]
          IN  tree' = updateActiveData(updateActivityRepresentation(set, rootItem))
    /\ UNCHANGED <<database, naming, reader>>
    /\ UNCHANGED <<parseVars, linkVars, dataVars>>

\* TreeModel.filter_checked(base_node, filter): the mode items among the
\* item, its children and their children
FilterChecked ==
    /\ tree.pc = "tree"
    /\ \E base_node \in TreeItems \ {rootItem}, f \in Filters :
          LET set == [tree EXCEPT !.itemActivity =
                         [x \in TreeItems |->
                             IF /\ x \in ModeItems
                                /\ \/ x = base_node
                                   \/ (IsBelow(x, base_node) /\ Len(x) - Len(base_node) <= 2)
                             THEN filter(ModeData(x), f) ELSE @[x]]]
          IN  tree' = updateActiveData(updateActivityRepresentation(set, base_node))
    /\ UNCHANGED <<database, naming, reader>>
    /\ UNCHANGED <<parseVars, linkVars, dataVars>>

NextTree ==
    \/ SetData
    \/ SetCheckedBelow
    \/ SetCheckedSelected
    \/ FilterChecked

SpecTree == InitTree /\ [][NextTree]_vars

(***************************************************************************)
(* Claims about TreeModel                                                  *)
(***************************************************************************)
\* C25: after any sequence of check and uncheck edits, set_checked and
\* filter_checked calls, no item is visibly active while its parent is
\* visibly inactive.
C25_NoActiveChildOfInactive ==
    \A x \in TreeItems \ {rootItem} :
        tree.itemVisibleActivity[x] = Checked =>
            tree.itemVisibleActivity[ParentItem(x)] = Checked


(***************************************************************************)
(* TreeModel.remove_redundant_branches on view_cfg.selected_data: a        *)
(* branch is <<tool>>, <<dataset, tool>> or <<<<mode_ID>>, dataset, tool>>, *)
(* as get_branch_from_item builds it; tree.branches is the selection and   *)
(* tree.result what the function returned.                                 *)
(***************************************************************************)
\* most selected items
MaxSelected == 3

\* the branches of a tree of two tools with two datasets of two modes each
AllBranches ==
    {<<t>> : t \in {"tool_1", "tool_2"}}
    \cup {<<d, t>> : d \in {"dataset_1", "dataset_2"}, t \in {"tool_1", "tool_2"}}
    \cup {<<<<m>>, d, t>> : m \in {0, 1}, d \in {"dataset_1", "dataset_2"},
                            t \in {"tool_1", "tool_2"}}

\* the selections of up to MaxSelected items, in the order of selection
BranchLists ==
    UNION {{b \in [1..n -> AllBranches] : \A i, j \in 1..n : b[i] = b[j] => i = j} :
              n \in 1..MaxSelected}

\* the example of the docstring, with the mode names as mode_IDs
DocstringBranches ==
    <<<<<<1>>, "dataset_2", "tool_1">>, <<<<4>>, "dataset_2", "tool_1">>,
      <<"dataset_3", "tool_1">>, <<"tool_1">>, <<"dataset_4", "tool_2">>>>

\* [x for x in list if len(x) == n]
RECURSIVE OfLength(_, _)
OfLength(list, n) ==
    IF list = <<>> THEN <<>>
    ELSE (IF Len(Head(list)) = n THEN <<Head(list)>> ELSE <<>>) \o OfLength(Tail(list), n)

\* the entries of a list
BranchSet(list) == {list[k] : k \in 1..Len(list)}

\* x in list
InBranches(x, list) == \E k \in 1..Len(list) : list[k] = x

\* [branch for branch in dataset_branches if [branch[1]] not in unique_tool_branches]
RECURSIVE NotOfTools(_, _)
NotOfTools(dataset_branches, unique_tool_branches) ==
    IF dataset_branches = <<>> THEN <<>>
    ELSE (IF InBranches(<<Head(dataset_branches)[2]>>, unique_tool_branches) THEN <<>>
          ELSE <<Head(dataset_branches)>>)
         \o NotOfTools(Tail(dataset_branches), unique_tool_branches)

\* "for ii, x in enumerate(unique_mode_branches)" for one branch: the first
\* entry of the same dataset and tool takes the mode_IDs of the branch;
\* "if ii == len(unique_mode_branches)" never holds, so nothing is appended
CombineInto(unique_mode_branches, branch) ==
    LET same == {ii \in 1..Len(unique_mode_branches) :
                    unique_mode_branches[ii][2] = branch[2]
                    /\ unique_mode_branches[ii][3] = branch[3]}
    IN  IF same = {} THEN unique_mode_branches
        ELSE LET ii == CHOOSE i \in same : \A j \in same : i <= j
             IN  [unique_mode_branches EXCEPT
                     ![ii] = <<@[1] \o branch[1], @[2], @[3]>>]

\* "for branch in mode_branches[1:]" from the k-th mode branch on
RECURSIVE CombineModes(_, _, _, _, _)
CombineModes(unique_mode_branches, mode_branches, k, unique_tool_branches, unique_dataset_branches) ==
    IF k > Len(mode_branches) THEN unique_mode_branches
    ELSE LET branch == mode_branches[k]
             next == IF /\ ~InBranches(<<branch[3]>>, unique_tool_branches)
                        /\ ~InBranches(<<branch[2], branch[3]>>, unique_dataset_branches)
                     THEN CombineInto(unique_mode_branches, branch)
                     ELSE unique_mode_branches
         IN  CombineModes(next, mode_branches, k + 1, unique_tool_branches,
                          unique_dataset_branches)

\* TreeModel.remove_redundant_branches
remove_redundant_branches(branches) ==
    LET unique_tool_branches == OfLength(branches, 1)
        dataset_branches == OfLength(branches, 2)
        mode_branches == OfLength(branches, 3)
        unique_dataset_branches == NotOfTools(dataset_branches, unique_tool_branches)
        unique_mode_branches ==
            IF Len(mode_branches) > 0
            THEN CombineModes(<<mode_branches[1]>>, mode_branches, 2, unique_tool_branches,
                              unique_dataset_branches)
            ELSE <<>>
    IN  unique_tool_branches \o unique_dataset_branches \o unique_mode_branches

InitBranches ==
    /\ ParseIdle
    /\ LinkIdle
    /\ DataIdle
    /\ database = [pc |-> "idle"]
    /\ naming = [pc |-> "idle"]
    /\ reader = [pc |-> "idle"]
    /\ \E branches \in BranchLists \cup {DocstringBranches} :
          tree = [pc |-> "selected", branches |-> branches, result |-> <<>>]

\* unique_branches = self.remove_redundant_branches(view_cfg.selected_data)
RemoveRedundant ==
    /\ tree.pc = "selected"
    /\ tree' = [tree EXCEPT !.pc = "reduced",
                            !.result = remove_redundant_branches(tree.branches)]
    /\ UNCHANGED <<database, naming, reader>>
    /\ UNCHANGED <<parseVars, linkVars, dataVars>>

NextBranches == RemoveRedundant

SpecBranches == InitBranches /\ [][NextBranches]_vars

\* the mode_IDs selected of dataset d of tool t
SelectedModes(branches, d, t) ==
    {b[1][1] : b \in {x \in BranchSet(branches) : Len(x) = 3 /\ x[2] = d /\ x[3] = t}}

\* C26: remove_redundant_branches returns every selected tool branch, every
\* selected dataset branch whose tool is not selected, and for the selected
\* modes one branch per (dataset, tool) carrying the combined mode indices,
\* provided neither the tool nor the dataset is selected; every branch of a
\* child of a selected parent is removed and no mode branch of a dataset
\* without a selected parent is lost; for the example of the docstring the
\* result is [['tool_1'], ['dataset_4', 'tool_2']].
C26_RedundantBranchesRemoved ==
    tree.pc = "reduced" =>
        LET sel == BranchSet(tree.branches)
            res == BranchSet(tree.result)
        IN  /\ \A b \in sel : Len(b) = 1 => b \in res
            /\ \A b \in sel : Len(b) = 2 /\ <<b[2]>> \notin sel => b \in res
            /\ \A b \in res : Len(b) = 2 => <<b[2]>> \notin sel
            /\ \A b \in res : Len(b) = 3 => <<b[3]>> \notin sel /\ <<b[2], b[3]>> \notin sel
            /\ \A b \in sel :
                  (Len(b) = 3 /\ <<b[3]>> \notin sel /\ <<b[2], b[3]>> \notin sel) =>
                      /\ Cardinality({k \in 1..Len(tree.result) :
                                         /\ Len(tree.result[k]) = 3
                                         /\ tree.result[k][2] = b[2]
                                         /\ tree.result[k][3] = b[3]}) = 1
                      /\ \E r \in res :
                            /\ Len(r) = 3 /\ r[2] = b[2] /\ r[3] = b[3]
                            /\ BranchSet(r[1]) = SelectedModes(tree.branches, b[2], b[3])
            /\ tree.branches = DocstringBranches =>
                   tree.result = <<<<"tool_1">>, <<"dataset_4", "tool_2">>>>


(***************************************************************************)
(* LinearizationDataWrapper.load on a database that holds datasets:        *)
(* database.data is the wrapper (tool -> name -> dataset), database.file   *)
(* the groups of the file, database.i the group the loop is at,            *)
(* database.before the wrapper when load was called.  A tool name is one   *)
(* token, a dataset name a sequence of characters, and the name of a group *)
(* is toolname + '&' + datasetname as save writes it.                      *)
(***************************************************************************)
\* most groups of a database file
MaxGroups == 2

\* the name as it was given
assure_unique_name_Given(unique_name, occupied_names) == unique_name

\* assure_unique_name as a function: the while loop run to its end
RECURSIVE assure_unique_name(_, _)
assure_unique_name(unique_name, occupied_names) ==
    IF unique_name \in occupied_names
    THEN assure_unique_name(Renamed(unique_name), occupied_names)
    ELSE unique_name

\* the tools of the groups and of the database
LoadTools == {<<"HAWCStab2">>, <<"Bladed (lin.)">>, <<"Tool">>}

\* the names of the datasets
LoadNames == {<<"a">>, <<"a", " ", "(", "1", ")">>}

\* the mode of the datasets of a file
FileMode == AEModeOf(<<"F", "W">>, <<>>, <<>>, <<>>)

\* a group of a file: its name and the dataset xr.open_dataset gives for it;
\* a group that save did not write may hold a text of fewer than four fields
Group(toolname, datasetname, saved) ==
    [name |-> toolname \o <<"&">> \o datasetname,
     ds |-> [modes |-> <<IF saved THEN to_plain_text(FileMode) ELSE <<"F", "W">>>>,
             participation_modes |-> <<to_plain_text(FileMode)>>,
             group |-> <<toolname, datasetname>>]]

\* the files: no file, or up to MaxGroups groups of different names, at
\* most one of them not written by save
DatabaseFiles ==
    {MissingFile}
    \cup UNION {{[missing |-> FALSE,
                 groups |-> [k \in 1..n |-> Group(g[k][1], g[k][2], k # bad)]] :
                    g \in {h \in [1..n -> LoadTools \X LoadNames] :
                              \A i, j \in 1..n : h[i] = h[j] => i = j},
                    bad \in 0..n} : n \in 1..MaxGroups}

\* a dataset the database holds before load
HeldDataset(toolname, datasetname) ==
    [class |-> "held", ds |-> [modes |-> <<FileMode>>, participation_modes |-> <<FileMode>>,
                               held |-> <<toolname, datasetname>>]]

\* the databases before load: some datasets of some tools
HeldDatabases ==
    {[t \in {p[1] : p \in held} |->
         [d \in {p[2] : p \in {q \in held : q[1] = t}} |-> HeldDataset(t, d)]] :
        held \in SUBSET (LoadTools \X LoadNames)}

\* the class load makes for a tool
LoadedClass(toolname) ==
    IF toolname = <<"HAWCStab2">> THEN "HAWCStab2Data"
    ELSE IF toolname = <<"Bladed (lin.)">> THEN "BladedLinData"
    ELSE "AbstractLinearizationData"

\* the two loops over modes and participation_modes of a loaded dataset:
\* the texts before the first that raises are converted
ConvertModes(ds) ==
    LET modes == [k \in DOMAIN ds.modes |-> from_plain_text(ds.modes[k])]
        participation_modes ==
            [k \in DOMAIN ds.participation_modes |-> from_plain_text(ds.participation_modes[k])]
        bad_modes == {k \in DOMAIN modes : modes[k].exc # "none"}
        bad_participation == {k \in DOMAIN participation_modes :
                                 participation_modes[k].exc # "none"}
        first_bad == IF bad_modes # {}
                     THEN CHOOSE k \in bad_modes : \A j \in bad_modes : k <= j
                     ELSE Len(ds.modes) + 1
        first_bad_participation ==
                     IF bad_modes # {} THEN 1
                     ELSE IF bad_participation # {}
                          THEN CHOOSE k \in bad_participation :
                                  \A j \in bad_participation : k <= j
                          ELSE Len(ds.participation_modes) + 1
    IN  [exc |-> IF bad_modes # {} \/ bad_participation # {} THEN "IndexError" ELSE "none",
         ds |-> [ds EXCEPT
                   !.modes = [k \in DOMAIN ds.modes |->
                                 IF k < first_bad THEN modes[k].mode ELSE ds.modes[k]],
                   !.participation_modes =
                       [k \in DOMAIN ds.participation_modes |->
                           IF k < first_bad_participation THEN participation_modes[k].mode
                           ELSE ds.participation_modes[k]]]]

InitLoad ==
    /\ ParseIdle
    /\ LinkIdle
    /\ DataIdle
    /\ naming = [pc |-> "idle"]
    /\ ViewIdle
    /\ \E data \in HeldDatabases, file \in DatabaseFiles :
          database = [pc |-> "load", data |-> data, before |-> data, file |-> file,
                      i |-> 1, loaded_data |-> [t \in {} |-> <<>>], stored |-> <<>>,
                      exc |-> "none"]

\* if os.path.exists(fname): ... else: print(...); loaded_data = dict(); return
LoadNoFile ==
    /\ database.pc = "load"
    /\ database.file.missing
    /\ database' = [database EXCEPT !.pc = "returned"]
    /\ UNCHANGED <<naming, reader, tree>>
    /\ UNCHANGED <<parseVars, linkVars, dataVars>>

\* for full_datasetname in group_names: one pass
LoadGroup ==
    /\ database.pc = "load"
    /\ ~database.file.missing
    /\ database.i <= Len(database.file.groups)
    /\ LET group == database.file.groups[database.i]
           toolname == StrSplitOn(group.name, "&")[1]
           given == StrSplitOn(group.name, "&")[2]
           listed == IF toolname \in DOMAIN database.loaded_data
                     THEN database.loaded_data[toolname] ELSE <<>>
           self == WithTool(database.data, toolname)
           datasetname == IF given \in DOMAIN self[toolname]
                          THEN assure_unique_name(given, DOMAIN self[toolname])
                          ELSE given
           conv == ConvertModes(group.ds @@ [database_file |-> "fname"])
       IN  database' = [database EXCEPT
              !.pc = IF conv.exc # "none" THEN "raised" ELSE "load",
              !.exc = conv.exc,
              !.i = @ + 1,
              !.loaded_data = [t \in (DOMAIN @) \cup {toolname} |->
                                  IF t = toolname THEN Append(listed, datasetname) ELSE @[t]],
              !.stored = Append(@, <<toolname, datasetname>>),
              !.data = WithDataset(self, toolname, datasetname,
                                   [class |-> LoadedClass(toolname), ds |-> conv.ds])]
    /\ UNCHANGED <<naming, reader, tree>>
    /\ UNCHANGED <<parseVars, linkVars, dataVars>>

\* return loaded_data
LoadReturn ==
    /\ database.pc = "load"
    /\ ~database.file.missing
    /\ database.i > Len(database.file.groups)
    /\ database' = [database EXCEPT !.pc = "returned"]
    /\ UNCHANGED <<naming, reader, tree>>
    /\ UNCHANGED <<parseVars, linkVars, dataVars>>

NextLoad == LoadNoFile \/ LoadGroup \/ LoadReturn

SpecLoad == InitLoad /\ [][NextLoad]_vars

\* the k-th group of the file is held under the k-th stored name
StoredGroup(k) ==
    LET at == database.stored[k]
    IN  /\ at[1] \in DOMAIN database.data
        /\ at[2] \in DOMAIN database.data[at[1]]
        /\ database.data[at[1]][at[2]].ds.group = database.file.groups[k].ds.group

\* the names in use for a tool when load comes to the k-th group
NamesInUse(toolname, k) ==
    (IF toolname \in DOMAIN database.before THEN DOMAIN database.before[toolname] ELSE {})
    \cup {database.stored[j][2] : j \in {i \in 1..(k - 1) : database.stored[i][1] = toolname}}

\* C27: load never replaces a dataset that is already in the database: a
\* loaded dataset whose name is in use for its tool is stored under a fresh
\* name produced by assure_unique_name, every dataset present before the
\* call is still present and unchanged, and the returned dictionary lists
\* the names under which the loaded datasets were stored.
C27_LoadKeepsDatasets ==
    database.pc \in {"load", "raised", "returned"} =>
        /\ \A t \in DOMAIN database.before :
              /\ t \in DOMAIN database.data
              /\ \A d \in DOMAIN database.before[t] :
                    /\ d \in DOMAIN database.data[t]
                    /\ database.data[t][d] = database.before[t][d]
        /\ \A k \in 1..Len(database.stored) :
              /\ StoredGroup(k)
              /\ \A j \in 1..Len(database.stored) :
                    database.stored[j] = database.stored[k] => j = k
              /\ LET toolname == database.file.groups[k].ds.group[1]
                     given == database.file.groups[k].ds.group[2]
                     at == database.stored[k]
                     occupied == NamesInUse(toolname, k)
                 IN  /\ at[1] = toolname
                     /\ at[2] \notin occupied
                     /\ given \notin occupied => at[2] = given
                     /\ (given \in occupied /\ Matches(given) = {}) =>
                            \E n \in 1..Cardinality(occupied) :
                                /\ at[2] = WithCounter(given, n)
                                /\ \A j \in 1..(n - 1) : WithCounter(given, j) \in occupied
                     /\ (given \in occupied /\ Matches(given) # {}) =>
                            RaisedFrom(given, at[2])
        /\ database.pc = "returned" =>
              /\ DOMAIN database.loaded_data = {database.stored[k][1] :
                                                   k \in 1..Len(database.stored)}
              /\ \A t \in DOMAIN database.loaded_data :
                    LET of_tool == SelectSeq(database.stored, LAMBDA s : s[1] = t)
                    IN  database.loaded_data[t] =
                            [k \in 1..Len(of_tool) |-> of_tool[k][2]]
              /\ Len(database.stored) =
                     IF database.file.missing THEN 0 ELSE Len(database.file.groups)

\* load has returned after storing a dataset under a name other than its
\* name in the file, next to the dataset that held that name
C27_Witness ==
    /\ database.pc = "returned"
    /\ ~database.file.missing
    /\ \E k \in 1..Len(database.stored) :
          /\ database.stored[k][2] # database.file.groups[k].ds.group[2]
          /\ database.stored[k][1] \in DOMAIN database.before
          /\ database.file.groups[k].ds.group[2] \in DOMAIN database.before[database.stored[k][1]]


(***************************************************************************)
(* remove_data where xarray's Dataset has no drop_sel: the except branch   *)
(* of remove_modes.  The wrapper, the branches and the fields of database  *)
(* are those of SpecRemove.                                                *)
(***************************************************************************)
RemoveDataOutdated ==
    /\ database.pc = "wrapper"
    /\ database.calls < MaxRemoveCalls
    /\ \E branch \in Branches :
          LET r == remove_data_with(FALSE, database.data, branch)
          IN  database' = [database EXCEPT !.data = r.self, !.branch = branch,
                                           !.exc = r.exc, !.printed = r.printed,
                                           !.calls = @ + 1]
    /\ UNCHANGED <<naming, reader, tree>>
    /\ UNCHANGED <<parseVars, linkVars, dataVars>>

NextRemoveOutdated == RemoveDataOutdated

SpecRemoveOutdated == InitRemove /\ [][NextRemoveOutdated]_vars

\* C28: when removing modes fails inside remove_modes (the AttributeError
\* case that prints 'Nothing has been removed from the database'), nothing
\* is removed: after remove_data returns, the dataset still holds the same
\* dataset object with all its previous modes and arrays.
C28_FailedRemovalKeepsDataset ==
    [][(/\ database.pc = "wrapper"
        /\ database'.calls = database.calls + 1
        /\ database'.printed = RemoveModesPrints) =>
           /\ database'.exc = "none"
           /\ database'.data = database.data]_vars


(***************************************************************************)
(* Claims about the cells read_cmb_data writes                             *)
(***************************************************************************)
\* read_cmb_data has gone through its loop and stored its arrays
CmbStored ==
    /\ cmb.active
    /\ call.pc = "idle"
    /\ call.exc = "none"
    /\ cmb.i_mode = Len(result_files.campbell.data)
    /\ IsSet(self_ds, "participation_factors_amp")
    /\ IsSet(self_ds, "participation_factors_phase")

\* every cell of arr at an operating point and mode without frequency is 0
ZeroWhereNoResult(arr, frequency) ==
    \A x \in Cells3(arr.shape) :
        frequency.a[<<x[1], x[3]>>] = NoResult => arr.a[x] = 0

\* C29: after read_cmb_data a cell whose mode did not converge never
\* carries participation data: for every operating point op and mode i with
\* frequency[op, i] == -1, participation_factors_amp[op, :, i] and
\* participation_factors_phase[op, :, i] are all zero.
C29_UnconvergedCellsZero ==
    /\ cmb.active =>
          /\ ZeroWhereNoResult(cmb.participation_factors_amp, self_ds["frequency"])
          /\ ZeroWhereNoResult(cmb.participation_factors_phase, self_ds["frequency"])
    /\ CmbStored =>
          /\ self_ds["participation_factors_amp"].shape[1] = self_ds["frequency"].shape[1]
          /\ self_ds["participation_factors_amp"].shape[3] = self_ds["frequency"].shape[2]
          /\ self_ds["participation_factors_phase"].shape =
                 self_ds["participation_factors_amp"].shape
          /\ ZeroWhereNoResult(self_ds["participation_factors_amp"], self_ds["frequency"])
          /\ ZeroWhereNoResult(self_ds["participation_factors_phase"], self_ds["frequency"])

\* the arrays are stored for a mode that has no result at the first
\* operating point and participation at the second
C29_Witness ==
    /\ CmbStored
    /\ \E i \in 1..self_ds["frequency"].shape[2] :
          /\ self_ds["frequency"].shape[1] = 2
          /\ self_ds["frequency"].a[<<1, i>>] = NoResult
          /\ self_ds["frequency"].a[<<2, i>>] # NoResult
          /\ \E p \in 1..self_ds["participation_factors_amp"].shape[2] :
                self_ds["participation_factors_amp"].a[<<2, p, i>>] # 0

\* the fragments of string k of mode track i have been parsed for
\* operating point op
ParsedFor(i, k, op) ==
    LET frags == Fragments(result_files.campbell.data[i].particip_str[k])
    IN  \A f \in 1..Len(frags) :
            \E j \in 1..Len(cmb.parsed) :
                /\ cmb.parsed[j].i_mode = i
                /\ cmb.parsed[j].operating_point_id = op
                /\ cmb.parsed[j].name = ParseTriple(frags[f]).name
                /\ cmb.parsed[j].ampl = ParseTriple(frags[f]).ampl
                /\ cmb.parsed[j].phase = ParseTriple(frags[f]).phase

\* C30: the k-th participation string of coupled mode i is written to the
\* k-th converged operating point of mode i (in increasing order), and no
\* participation string is silently dropped: for every mode, every string
\* of the .$CM table is assigned to an operating point, also when the table
\* holds more or fewer strings than the mode has converged operating points.
C30_EveryStringAssigned ==
    CmbStored =>
        \A i \in 1..Len(result_files.campbell.data) :
            LET strings == result_files.campbell.data[i].particip_str
                used    == used_operating_points(self_ds["frequency"], i)
            IN  \A k \in 1..Len(strings) :
                    /\ k <= Len(used)
                    /\ ParsedFor(i, k, used[k])

=============================================================================
